---- MODULE Spec2Model ----
(***************************************************************************)
(* Verification model of the HarvestFlow Cardano issuance protocol:        *)
(*   - the oracle record and the off-chain transaction builders            *)
(*     (lib/nft-contracts offchain class, the mint / mint-bulk API routes  *)
(*     and the useCardanoAPIMint hook),                                    *)
(*   - the ledger that settles the built transactions (single consumer per *)
(*     UTxO, oracle validator),                                            *)
(*   - the airdrop-refund batch tool with its resumable log.               *)
(* Specification Spec is the issuance protocol, AirdropSpec the tool.      *)
(***************************************************************************)
EXTENDS Integers, Sequences, FiniteSets, TLC

(***************************************************************************)
(* Bounds of the model                                                      *)
(***************************************************************************)
MaxSupplyBound == 2
\* the max_mints the operator boots the oracle with

MaxPrice == 2
\* the lovelace price the operator boots the oracle with

MaxRef == 3
\* oracle UTxO generations the ledger produces in one behaviour

MaxInFlight == 2
\* submitted transactions awaiting settlement at one time

MaxRuns == 3
\* executions of the airdrop tool in one behaviour

MaxHolders == 51
\* largest holder enumeration

MaxAdaPerNft == 1
\* whole ada-per-nft rates 1..MaxAdaPerNft

(***************************************************************************)
(* Program constants                                                        *)
(***************************************************************************)
MaxBulkQuantity == 15
BATCH_SIZE == 50
estimatedFeePerTx == 200000
LovelacePerAda == 1000000

(***************************************************************************)
(* State                                                                    *)
(***************************************************************************)
VARIABLES
  oracle,        \* the oracle UTxO on the ledger: [ref, datum], NoOracle before boot
  issued,        \* asset names minted so far: <<label, index>>
  mempool,       \* transactions accepted at submission and not yet settled
  consumed,      \* ref -> number of settled transactions that spent oracle UTxO ref
  lost,          \* submitted transactions the step just taken left without input
  tokenHolders,  \* unspent outputs at the oracle address that carry the oracle token
  procs,         \* per user: position and the built transaction it holds
  last,          \* how the most recent operation of a caller ended
  mintStatus,    \* the status the mint hook shows in the observed browser session
  polls,         \* that session's background confirmations in progress
  run,           \* airdrop: per-execution state of airdropRefund
  logFiles,      \* airdrop: log files on disk, one per execution that wrote
  paid,          \* airdrop: address -> number of payments accepted by the ledger
  runs,          \* airdrop: executions started
  exchange,      \* gateway: the most recent request served and its reply
  retry,         \* the bounded wait or retry loop in progress, and how it ended
  call,          \* the mintProjectNFT call the observed session made last
  offer          \* a bulk status answer and the prepare request made on it

mintVars == <<oracle, issued, mempool, consumed, lost, tokenHolders, procs, last,
             mintStatus, polls>>
airdropVars == <<run, logFiles, paid, runs>>
gatewayVars == <<exchange>>
retryVars == <<retry>>
callVars == <<call, offer>>
vars == <<oracle, issued, mempool, consumed, lost, tokenHolders, procs, last,
          mintStatus, polls,
          run, logFiles, paid, runs, exchange, retry, call, offer>>

(***************************************************************************)
(* Actors                                                                   *)
(***************************************************************************)
Admin == "admin"
Users == {"u1", "u2"}
Procs == Users \cup {Admin}
\* the browser session whose status display is observed
Session == "s1"
Wallets == Users \cup {Session}
ClassCallers == {"u1"}

Max(a, b) == IF a >= b THEN a ELSE b
Min(a, b) == IF a <= b THEN a ELSE b

(***************************************************************************)
(* Oracle datum  (lib/nft-contracts/type.ts)                                *)
(***************************************************************************)
oracleDatum(count, lovelace_price, fee_address, nft_mint_allowed, nft_trade_allowed, expected_apr_numerator, expected_apr_denominator, maturation_time, max_mints) ==
  [count |-> count,
   lovelace_price |-> lovelace_price,
   fee_address |-> fee_address,
   nft_mint_allowed |-> nft_mint_allowed,
   nft_trade_allowed |-> nft_trade_allowed,
   expected_apr_numerator |-> expected_apr_numerator,
   expected_apr_denominator |-> expected_apr_denominator,
   maturation_time |-> maturation_time,
   max_mints |-> max_mints]

mOracleDatum(count, lovelace_price, fee_address, nft_mint_allowed, nft_trade_allowed, expected_apr_numerator, expected_apr_denominator, maturation_time, max_mints) ==
  oracleDatum(count, lovelace_price, fee_address, nft_mint_allowed,
              nft_trade_allowed, expected_apr_numerator,
              expected_apr_denominator, maturation_time, max_mints)

NoDatum == oracleDatum(0, 0, "none", FALSE, FALSE, 0, 0, 0, 0)
NoOracle == [ref |-> 0, datum |-> NoDatum]

\* Asset names.  The plain name is `${collectionName} (${index})`; CIP68_222
\* and CIP68_100 prepend the (222) and (100) label to the hex name.
TokenName(index) == <<"plain", index>>
CIP68_222(name) == <<"222", name[2]>>
CIP68_100(name) == <<"100", name[2]>>

(***************************************************************************)
(* Transactions                                                             *)
(***************************************************************************)
NoTx ==
  [by |-> "none", path |-> "none", redeemer |-> "none", redeemerQty |-> 0,
   spends |-> FALSE, input |-> 0, datumOut |-> NoDatum,
   oracleMint |-> 0, oracleOut |-> 0,
   fee |-> 0, payee |-> "none", mints |-> {},
   mintRedeemer |-> "none", mintRedeemerQty |-> 0,
   requiredSigner |-> "none", signedBy |-> "none"]

NoData ==
  [ok |-> FALSE, error |-> "none", tokenIds |-> <<>>, lovelacePrice |-> 0,
   totalLovelace |-> 0, feeCollectorAddress |-> "none", ref |-> 0,
   datum |-> NoDatum]

IdleProc == [pc |-> "idle", tx |-> NoTx]

NoOutcome ==
  [by |-> "none", path |-> "none", quantity |-> 0, pc |-> "none", err |-> "none",
   txs |-> <<>>]


(***************************************************************************)
(* Off-chain contract class  (lib/nft-contracts offchain, MeshPlutusNFT-    *)
(* Contract).  A builder returns [ok, error, tx].                           *)
(***************************************************************************)
Built(tx) == [ok |-> TRUE, error |-> "none", tx |-> tx]
Thrown(error) == [ok |-> FALSE, error |-> error, tx |-> NoTx]

Undefined == -1
\* the value of an omitted mint100TokenForIndex argument

\* setupOracle with count and max_mints passed in each other's position
setupOracle_swapped(by, lovelacePrice, expectedApr, maturation_time, max_mints) ==
  Built([NoTx EXCEPT
    !.by = by, !.path = "setupOracle", !.signedBy = by,
    !.oracleMint = 1, !.oracleOut = 1,
    !.datumOut = mOracleDatum(max_mints, lovelacePrice, by, TRUE, TRUE,
                              expectedApr[1], expectedApr[2],
                              maturation_time, 0)])

\* setupOracle that adds the output at the oracle address twice
setupOracle_twice(by, lovelacePrice, expectedApr, maturation_time, max_mints) ==
  Built([NoTx EXCEPT
    !.by = by, !.path = "setupOracle", !.signedBy = by,
    !.oracleMint = 1, !.oracleOut = 2,
    !.datumOut = mOracleDatum(0, lovelacePrice, by, TRUE, TRUE,
                              expectedApr[1], expectedApr[2],
                              maturation_time, max_mints)])

\* setupOracle: mints the oracle token and creates the first oracle record
setupOracle(by, lovelacePrice, expectedApr, maturation_time, max_mints) ==
  Built([NoTx EXCEPT
    !.by = by, !.path = "setupOracle", !.signedBy = by,
    !.oracleMint = 1, !.oracleOut = 1,
    !.datumOut = mOracleDatum(0, lovelacePrice, by, TRUE, TRUE,
                              expectedApr[1], expectedApr[2],
                              maturation_time, max_mints)])

\* mintPlutusNFT(assetMetadata?, mint100TokenForIndex?, mint222Token = true)
mintPlutusNFT(by, o, metadataIsPresent, mint100TokenForIndex, mint222Token) ==
  LET d == o.datum
      minting100Token == mint100TokenForIndex # Undefined
      truthy100 == mint100TokenForIndex # Undefined /\ mint100TokenForIndex # 0
      baseIndex == IF minting100Token THEN mint100TokenForIndex ELSE d.count
      baseTokenName == TokenName(baseIndex)
      updatedOracleDatum ==
        oracleDatum(d.count + 1, d.lovelace_price, d.fee_address,
                    d.nft_mint_allowed, d.nft_trade_allowed,
                    d.expected_apr_numerator, d.expected_apr_denominator,
                    d.maturation_time, d.max_mints)
      t0 == [NoTx EXCEPT !.by = by, !.path = "mintPlutusNFT",
                         !.signedBy = by, !.input = o.ref]
      t1 == IF truthy100
            THEN [t0 EXCEPT !.spends = FALSE, !.datumOut = d]
            ELSE [t0 EXCEPT !.spends = TRUE, !.oracleOut = 1, !.redeemer = "MintPlutusNFT",
                            !.datumOut = updatedOracleDatum]
      t2 == IF ~minting100Token
            THEN [t1 EXCEPT !.fee = d.lovelace_price,
                            !.payee = d.fee_address,
                            !.mints = {IF mint222Token
                                       THEN CIP68_222(baseTokenName)
                                       ELSE baseTokenName},
                            !.mintRedeemer = "RMint"]
            ELSE t1
      t3 == IF minting100Token /\ metadataIsPresent
            THEN [t2 EXCEPT !.mints = {CIP68_100(baseTokenName)},
                            !.mintRedeemer = "RMintCip68",
                            !.mintRedeemerQty = mint100TokenForIndex]
            ELSE t2
  IN  IF o = NoOracle THEN Thrown("OracleNotFound")
      ELSE IF d.count + 1 > d.max_mints THEN Thrown("CapacityExceeded")
      ELSE Built(t3)

\* the calls of mintPlutusNFT that mintManyPlutusNFT makes, one per request;
\* nothing is signed or submitted between two calls, so each call's
\* getOracleData reads the oracle record o
RECURSIVE mintManyCalls(_, _, _)
mintManyCalls(by, o, requests) ==
  IF requests = <<>> THEN <<>>
  ELSE <<mintPlutusNFT(by, o, Head(requests).metadata,
                       Head(requests).mint100TokenForIndex,
                       Head(requests).mint222Token)>>
       \o mintManyCalls(by, o, Tail(requests))

\* mintManyPlutusNFT(requests): the transactions in request order, or the
\* error of the first request that failed
mintManyPlutusNFT(by, o, requests) ==
  IF requests = <<>>
  THEN [ok |-> FALSE, txs |-> <<>>,
        error |-> "mintManyPlutusNFT requires at least one request"]
  ELSE LET results == mintManyCalls(by, o, requests)
           failed == {k \in 1..Len(results) : ~results[k].ok}
       IN IF failed # {}
          THEN LET index == CHOOSE k \in failed : \A j \in failed : k <= j
               IN [ok |-> FALSE, txs |-> <<>>,
                   error |-> "[mintManyPlutusNFT] Request failed: "
                               \o results[index].error]
          ELSE [ok |-> TRUE, error |-> "none",
                txs |-> [k \in 1..Len(results) |-> results[k].tx]]

\* mintBulkPlutusNFT paying one lovelace more than price x quantity
mintBulkPlutusNFT_overpay(by, o, quantity) ==
  LET d == o.datum
      updatedOracleDatum ==
        oracleDatum(d.count + quantity, d.lovelace_price, d.fee_address,
                    d.nft_mint_allowed, d.nft_trade_allowed,
                    d.expected_apr_numerator, d.expected_apr_denominator,
                    d.maturation_time, d.max_mints)
      totalFee == d.lovelace_price * quantity + 1
  IN  IF quantity <= 0 THEN Thrown("InvalidQuantity")
      ELSE IF o = NoOracle THEN Thrown("OracleNotFound")
      ELSE IF d.count + quantity > d.max_mints THEN Thrown("CapacityExceeded")
      ELSE IF ~d.nft_mint_allowed THEN Thrown("Disabled")
      ELSE Built([NoTx EXCEPT
             !.by = by, !.path = "mintBulkPlutusNFT", !.signedBy = by,
             !.input = o.ref, !.spends = TRUE, !.oracleOut = 1,
             !.redeemer = "BulkMintPlutusNFT", !.redeemerQty = quantity,
             !.datumOut = updatedOracleDatum,
             !.fee = totalFee, !.payee = d.fee_address,
             !.mints = {TokenName(d.count + i) : i \in 0..(quantity - 1)},
             !.mintRedeemer = "RBulkMint", !.mintRedeemerQty = quantity])

\* mintBulkPlutusNFT(quantity)
mintBulkPlutusNFT(by, o, quantity) ==
  LET d == o.datum
      updatedOracleDatum ==
        oracleDatum(d.count + quantity, d.lovelace_price, d.fee_address,
                    d.nft_mint_allowed, d.nft_trade_allowed,
                    d.expected_apr_numerator, d.expected_apr_denominator,
                    d.maturation_time, d.max_mints)
      totalFee == d.lovelace_price * quantity
  IN  IF quantity <= 0 THEN Thrown("InvalidQuantity")
      ELSE IF o = NoOracle THEN Thrown("OracleNotFound")
      ELSE IF d.count + quantity > d.max_mints THEN Thrown("CapacityExceeded")
      ELSE IF ~d.nft_mint_allowed THEN Thrown("Disabled")
      ELSE Built([NoTx EXCEPT
             !.by = by, !.path = "mintBulkPlutusNFT", !.signedBy = by,
             !.input = o.ref, !.spends = TRUE, !.oracleOut = 1,
             !.redeemer = "BulkMintPlutusNFT", !.redeemerQty = quantity,
             !.datumOut = updatedOracleDatum,
             !.fee = totalFee, !.payee = d.fee_address,
             !.mints = {TokenName(d.count + i) : i \in 0..(quantity - 1)},
             !.mintRedeemer = "RBulkMint", !.mintRedeemerQty = quantity])

\* setNFTMinting writing a record with the index reset
setNFTMinting_reset(by, o, onOrOff) ==
  LET d == o.datum
      updatedOracleDatum ==
        oracleDatum(0, d.lovelace_price, d.fee_address,
                    onOrOff, d.nft_trade_allowed,
                    d.expected_apr_numerator, d.expected_apr_denominator,
                    d.maturation_time, d.max_mints)
  IN  IF o = NoOracle THEN Thrown("OracleNotFound")
      ELSE Built([NoTx EXCEPT
             !.by = by, !.path = "setNFTMinting", !.signedBy = by,
             !.requiredSigner = d.fee_address,
             !.input = o.ref, !.spends = TRUE, !.oracleOut = 1,
             !.redeemer = IF onOrOff THEN "EnableNFTMinting"
                                     ELSE "DisableNFTMinting",
             !.datumOut = updatedOracleDatum])

\* setNFTMinting declaring the calling wallet as the required signer
setNFTMinting_self(by, o, onOrOff) ==
  LET d == o.datum
      updatedOracleDatum ==
        oracleDatum(d.count, d.lovelace_price, d.fee_address,
                    onOrOff, d.nft_trade_allowed,
                    d.expected_apr_numerator, d.expected_apr_denominator,
                    d.maturation_time, d.max_mints)
  IN  IF o = NoOracle THEN Thrown("OracleNotFound")
      ELSE Built([NoTx EXCEPT
             !.by = by, !.path = "setNFTMinting", !.signedBy = by,
             !.requiredSigner = by,
             !.input = o.ref, !.spends = TRUE, !.oracleOut = 1,
             !.redeemer = IF onOrOff THEN "EnableNFTMinting"
                                     ELSE "DisableNFTMinting",
             !.datumOut = updatedOracleDatum])

\* setNFTMinting(onOrOff)
setNFTMinting(by, o, onOrOff) ==
  LET d == o.datum
      updatedOracleDatum ==
        oracleDatum(d.count, d.lovelace_price, d.fee_address,
                    onOrOff, d.nft_trade_allowed,
                    d.expected_apr_numerator, d.expected_apr_denominator,
                    d.maturation_time, d.max_mints)
  IN  IF o = NoOracle THEN Thrown("OracleNotFound")
      ELSE Built([NoTx EXCEPT
             !.by = by, !.path = "setNFTMinting", !.signedBy = by,
             !.requiredSigner = d.fee_address,
             !.input = o.ref, !.spends = TRUE, !.oracleOut = 1,
             !.redeemer = IF onOrOff THEN "EnableNFTMinting"
                                     ELSE "DisableNFTMinting",
             !.datumOut = updatedOracleDatum])

\* setNFTTrading writing the requested value into both flags
setNFTTrading_both(by, o, onOrOff) ==
  LET d == o.datum
      updatedOracleDatum ==
        oracleDatum(d.count, d.lovelace_price, d.fee_address,
                    onOrOff, onOrOff,
                    d.expected_apr_numerator, d.expected_apr_denominator,
                    d.maturation_time, d.max_mints)
  IN  IF o = NoOracle THEN Thrown("OracleNotFound")
      ELSE Built([NoTx EXCEPT
             !.by = by, !.path = "setNFTTrading", !.signedBy = by,
             !.requiredSigner = d.fee_address,
             !.input = o.ref, !.spends = TRUE, !.oracleOut = 1,
             !.redeemer = IF onOrOff THEN "EnableNFTTrading"
                                     ELSE "DisableNFTTrading",
             !.datumOut = updatedOracleDatum])

\* setNFTTrading(onOrOff)
setNFTTrading(by, o, onOrOff) ==
  LET d == o.datum
      updatedOracleDatum ==
        oracleDatum(d.count, d.lovelace_price, d.fee_address,
                    d.nft_mint_allowed, onOrOff,
                    d.expected_apr_numerator, d.expected_apr_denominator,
                    d.maturation_time, d.max_mints)
  IN  IF o = NoOracle THEN Thrown("OracleNotFound")
      ELSE Built([NoTx EXCEPT
             !.by = by, !.path = "setNFTTrading", !.signedBy = by,
             !.requiredSigner = d.fee_address,
             !.input = o.ref, !.spends = TRUE, !.oracleOut = 1,
             !.redeemer = IF onOrOff THEN "EnableNFTTrading"
                                     ELSE "DisableNFTTrading",
             !.datumOut = updatedOracleDatum])

(***************************************************************************)
(* API routes  (app/api/cardano/mint, app/api/cardano/mint-bulk)            *)
(***************************************************************************)
Failed(error) == [NoData EXCEPT !.error = error]

\* POST /api/cardano/mint
MintRoutePOST(quantity, o, override) ==
  LET d == o.datum
      currentIndex == d.count
  IN  IF quantity # 1 THEN Failed("InvalidQuantity")
      ELSE IF o = NoOracle THEN Failed("OracleNotFound")
      ELSE [ok |-> TRUE, error |-> "none",
            tokenIds |-> <<currentIndex>>,
            lovelacePrice |-> d.lovelace_price,
            totalLovelace |-> d.lovelace_price,
            feeCollectorAddress |-> d.fee_address,
            ref |-> o.ref,
            datum |-> IF override THEN [d EXCEPT !.nft_mint_allowed = TRUE]
                                  ELSE d]

\* the largest quantity the bulk status query ever advertises
MaxAdvertised == 50

\* GET /api/cardano/mint-bulk: the bulk status of the project's oracle
\* record
MintBulkRouteGET(o) ==
  [currentIndex |-> o.datum.count,
   maxMints |-> o.datum.max_mints,
   remainingMints |-> o.datum.max_mints - o.datum.count,
   maxBulkQuantity |-> Min(MaxAdvertised, o.datum.max_mints - o.datum.count),
   mintingAllowed |-> o.datum.nft_mint_allowed]

\* POST /api/cardano/mint-bulk without the remaining-capacity check
MintBulkRoutePOST_nocap(quantity, o, override) ==
  LET d == o.datum
      currentIndex == d.count
      mintingAllowed == d.nft_mint_allowed \/ override
  IN  IF quantity < 1 \/ quantity > MaxBulkQuantity
        THEN Failed("InvalidQuantity")
      ELSE IF o = NoOracle THEN Failed("OracleNotFound")
      ELSE IF ~mintingAllowed THEN Failed("Disabled")
      ELSE [ok |-> TRUE, error |-> "none",
            tokenIds |-> [i \in 1..quantity |-> currentIndex + (i - 1)],
            lovelacePrice |-> d.lovelace_price,
            totalLovelace |-> d.lovelace_price * quantity,
            feeCollectorAddress |-> d.fee_address,
            ref |-> o.ref,
            datum |-> d]

\* POST /api/cardano/mint-bulk numbering the units from the index after the
\* current one
MintBulkRoutePOST_skip(quantity, o, override) ==
  LET d == o.datum
      currentIndex == d.count
      mintingAllowed == d.nft_mint_allowed \/ override
  IN  IF quantity < 1 \/ quantity > MaxBulkQuantity
        THEN Failed("InvalidQuantity")
      ELSE IF o = NoOracle THEN Failed("OracleNotFound")
      ELSE IF currentIndex + quantity > d.max_mints
        THEN Failed("CapacityExceeded")
      ELSE IF ~mintingAllowed THEN Failed("Disabled")
      ELSE [ok |-> TRUE, error |-> "none",
            tokenIds |-> [i \in 1..quantity |-> currentIndex + i],
            lovelacePrice |-> d.lovelace_price,
            totalLovelace |-> d.lovelace_price * quantity,
            feeCollectorAddress |-> d.fee_address,
            ref |-> o.ref,
            datum |-> d]

\* POST /api/cardano/mint-bulk without the upper limit on quantity
MintBulkRoutePOST_nomax(quantity, o, override) ==
  LET d == o.datum
      currentIndex == d.count
      mintingAllowed == d.nft_mint_allowed \/ override
  IN  IF quantity < 1 THEN Failed("InvalidQuantity")
      ELSE IF o = NoOracle THEN Failed("OracleNotFound")
      ELSE IF currentIndex + quantity > d.max_mints
        THEN Failed("CapacityExceeded")
      ELSE IF ~mintingAllowed THEN Failed("Disabled")
      ELSE [ok |-> TRUE, error |-> "none",
            tokenIds |-> [i \in 1..quantity |-> currentIndex + (i - 1)],
            lovelacePrice |-> d.lovelace_price,
            totalLovelace |-> d.lovelace_price * quantity,
            feeCollectorAddress |-> d.fee_address,
            ref |-> o.ref,
            datum |-> d]

\* POST /api/cardano/mint-bulk
MintBulkRoutePOST(quantity, o, override) ==
  LET d == o.datum
      currentIndex == d.count
      mintingAllowed == d.nft_mint_allowed \/ override
  IN  IF quantity < 1 \/ quantity > MaxBulkQuantity
        THEN Failed("InvalidQuantity")
      ELSE IF o = NoOracle THEN Failed("OracleNotFound")
      ELSE IF currentIndex + quantity > d.max_mints
        THEN Failed("CapacityExceeded")
      ELSE IF ~mintingAllowed THEN Failed("Disabled")
      ELSE [ok |-> TRUE, error |-> "none",
            tokenIds |-> [i \in 1..quantity |-> currentIndex + (i - 1)],
            lovelacePrice |-> d.lovelace_price,
            totalLovelace |-> d.lovelace_price * quantity,
            feeCollectorAddress |-> d.fee_address,
            ref |-> o.ref,
            datum |-> d]

(***************************************************************************)
(* Client hook  (hooks/useCardanoAPIMint.ts): transaction assembly          *)
(***************************************************************************)
\* executeSingleMint naming the unit from the index after the mint
executeSingleMintTx_next(by, mintData) ==
  LET d == mintData.datum
      tokenId == mintData.tokenIds[1]
      updatedOracleDatum ==
        oracleDatum(d.count + 1, mintData.lovelacePrice, d.fee_address,
                    d.nft_mint_allowed, d.nft_trade_allowed,
                    d.expected_apr_numerator, d.expected_apr_denominator,
                    d.maturation_time, d.max_mints)
  IN  [NoTx EXCEPT
        !.by = by, !.path = "executeSingleMint", !.signedBy = by,
        !.input = mintData.ref, !.spends = TRUE, !.oracleOut = 1,
        !.redeemer = "MintPlutusNFT",
        !.datumOut = updatedOracleDatum,
        !.fee = mintData.lovelacePrice,
        !.payee = mintData.feeCollectorAddress,
        !.mints = {TokenName(tokenId + 1)},
        !.mintRedeemer = "RMint"]

\* executeSingleMint, from the prepare response to tx.complete()
executeSingleMintTx(by, mintData) ==
  LET d == mintData.datum
      tokenId == mintData.tokenIds[1]
      updatedOracleDatum ==
        oracleDatum(d.count + 1, mintData.lovelacePrice, d.fee_address,
                    d.nft_mint_allowed, d.nft_trade_allowed,
                    d.expected_apr_numerator, d.expected_apr_denominator,
                    d.maturation_time, d.max_mints)
  IN  [NoTx EXCEPT
        !.by = by, !.path = "executeSingleMint", !.signedBy = by,
        !.input = mintData.ref, !.spends = TRUE, !.oracleOut = 1,
        !.redeemer = "MintPlutusNFT",
        !.datumOut = updatedOracleDatum,
        !.fee = mintData.lovelacePrice,
        !.payee = mintData.feeCollectorAddress,
        !.mints = {TokenName(tokenId)},
        !.mintRedeemer = "RMint"]

\* mintProjectNFTBulk building for one unit less than requested
mintProjectNFTBulkTx_short(by, mintData, quantity) ==
  LET d == mintData.datum
      tokenIds == mintData.tokenIds
      updatedOracleDatum ==
        oracleDatum(d.count + (quantity - 1), mintData.lovelacePrice,
                    d.fee_address,
                    d.nft_mint_allowed, d.nft_trade_allowed,
                    d.expected_apr_numerator, d.expected_apr_denominator,
                    d.maturation_time, d.max_mints)
  IN  [NoTx EXCEPT
        !.by = by, !.path = "mintProjectNFTBulk", !.signedBy = by,
        !.input = mintData.ref, !.spends = TRUE, !.oracleOut = 1,
        !.redeemer = "BulkMintPlutusNFT", !.redeemerQty = quantity - 1,
        !.datumOut = updatedOracleDatum,
        !.fee = mintData.totalLovelace,
        !.payee = mintData.feeCollectorAddress,
        !.mints = {TokenName(tokenIds[i]) : i \in 1..(quantity - 1)},
        !.mintRedeemer = "RBulkMint", !.mintRedeemerQty = quantity - 1]

\* mintProjectNFTBulk writing a later maturation time into the new record
mintProjectNFTBulkTx_rematured(by, mintData, quantity) ==
  LET d == mintData.datum
      tokenIds == mintData.tokenIds
      updatedOracleDatum ==
        oracleDatum(d.count + quantity, mintData.lovelacePrice, d.fee_address,
                    d.nft_mint_allowed, d.nft_trade_allowed,
                    d.expected_apr_numerator, d.expected_apr_denominator,
                    d.maturation_time + 1, d.max_mints)
  IN  [NoTx EXCEPT
        !.by = by, !.path = "mintProjectNFTBulk", !.signedBy = by,
        !.input = mintData.ref, !.spends = TRUE, !.oracleOut = 1,
        !.redeemer = "BulkMintPlutusNFT", !.redeemerQty = quantity,
        !.datumOut = updatedOracleDatum,
        !.fee = mintData.totalLovelace,
        !.payee = mintData.feeCollectorAddress,
        !.mints = {TokenName(tokenIds[i]) : i \in 1..quantity},
        !.mintRedeemer = "RBulkMint", !.mintRedeemerQty = quantity]

\* a bulk builder whose mint redeemer always carries the quantity 1
mintProjectNFTBulkTx_oneRedeemer(by, mintData, quantity) ==
  LET d == mintData.datum
      tokenIds == mintData.tokenIds
      updatedOracleDatum ==
        oracleDatum(d.count + quantity, mintData.lovelacePrice, d.fee_address,
                    d.nft_mint_allowed, d.nft_trade_allowed,
                    d.expected_apr_numerator, d.expected_apr_denominator,
                    d.maturation_time, d.max_mints)
  IN  [NoTx EXCEPT
        !.by = by, !.path = "mintProjectNFTBulk", !.signedBy = by,
        !.input = mintData.ref, !.spends = TRUE, !.oracleOut = 1,
        !.redeemer = "BulkMintPlutusNFT", !.redeemerQty = quantity,
        !.datumOut = updatedOracleDatum,
        !.fee = mintData.totalLovelace,
        !.payee = mintData.feeCollectorAddress,
        !.mints = {TokenName(tokenIds[i]) : i \in 1..quantity},
        !.mintRedeemer = "RBulkMint", !.mintRedeemerQty = 1]

\* mintProjectNFTBulk, from the prepare response to tx.complete()
mintProjectNFTBulkTx(by, mintData, quantity) ==
  LET d == mintData.datum
      tokenIds == mintData.tokenIds
      updatedOracleDatum ==
        oracleDatum(d.count + quantity, mintData.lovelacePrice, d.fee_address,
                    d.nft_mint_allowed, d.nft_trade_allowed,
                    d.expected_apr_numerator, d.expected_apr_denominator,
                    d.maturation_time, d.max_mints)
  IN  [NoTx EXCEPT
        !.by = by, !.path = "mintProjectNFTBulk", !.signedBy = by,
        !.input = mintData.ref, !.spends = TRUE, !.oracleOut = 1,
        !.redeemer = "BulkMintPlutusNFT", !.redeemerQty = quantity,
        !.datumOut = updatedOracleDatum,
        !.fee = mintData.totalLovelace,
        !.payee = mintData.feeCollectorAddress,
        !.mints = {TokenName(tokenIds[i]) : i \in 1..quantity},
        !.mintRedeemer = "RBulkMint", !.mintRedeemerQty = quantity]


(***************************************************************************)
(* POST /api/cardano/build-tx: server-side assembly of a single mint from   *)
(* the oracle data, price and token id of the request body; the payment    *)
(* goes to the treasury address of the server's network configuration.     *)
(***************************************************************************)
BuildTxPOST(by, o, lovelacePrice, tokenId, treasuryAddress) ==
  LET d == o.datum
      updatedOracleDatum ==
        oracleDatum(d.count + 1, lovelacePrice, d.fee_address,
                    d.nft_mint_allowed, d.nft_trade_allowed,
                    d.expected_apr_numerator, d.expected_apr_denominator,
                    d.maturation_time, d.max_mints)
  IN  [NoTx EXCEPT
        !.by = by, !.path = "buildTx", !.signedBy = by,
        !.input = o.ref, !.spends = TRUE, !.oracleOut = 1,
        !.redeemer = "MintPlutusNFT",
        !.datumOut = updatedOracleDatum,
        !.fee = lovelacePrice,
        !.payee = treasuryAddress,
        !.mints = {TokenName(tokenId)},
        !.mintRedeemer = "RMint"]

(***************************************************************************)
(* Ledger.  The on-chain validators (lib/nft-contracts/aiken) follow the    *)
(* transition rules of the design: section 4.1.                            *)
(***************************************************************************)
WithCount(d, n) == [d EXCEPT !.count = d.count + n]

\* A toggle is accepted only from the opposite state: enabling what is
\* already enabled fails (docs/deploying-new-projects, 3.5).
OracleValidator(d, tx) ==
  CASE tx.redeemer = "MintPlutusNFT" ->
         /\ d.nft_mint_allowed
         /\ d.count + 1 <= d.max_mints
         /\ tx.datumOut = WithCount(d, 1)
         /\ tx.payee = d.fee_address
         /\ tx.fee >= d.lovelace_price
    [] tx.redeemer = "BulkMintPlutusNFT" ->
         /\ tx.redeemerQty >= 1
         /\ d.nft_mint_allowed
         /\ d.count + tx.redeemerQty <= d.max_mints
         /\ tx.datumOut = WithCount(d, tx.redeemerQty)
         /\ tx.payee = d.fee_address
         /\ tx.fee >= d.lovelace_price * tx.redeemerQty
    [] tx.redeemer = "EnableNFTMinting" ->
         /\ tx.signedBy = d.fee_address
         /\ ~d.nft_mint_allowed
         /\ tx.datumOut = [d EXCEPT !.nft_mint_allowed = TRUE]
    [] tx.redeemer = "DisableNFTMinting" ->
         /\ tx.signedBy = d.fee_address
         /\ d.nft_mint_allowed
         /\ tx.datumOut = [d EXCEPT !.nft_mint_allowed = FALSE]
    [] tx.redeemer = "EnableNFTTrading" ->
         /\ tx.signedBy = d.fee_address
         /\ ~d.nft_trade_allowed
         /\ tx.datumOut = [d EXCEPT !.nft_trade_allowed = TRUE]
    [] tx.redeemer = "DisableNFTTrading" ->
         /\ tx.signedBy = d.fee_address
         /\ d.nft_trade_allowed
         /\ tx.datumOut = [d EXCEPT !.nft_trade_allowed = FALSE]
    [] OTHER -> FALSE

\* minting policy of the issued units: one unit per index, named from the
\* index the oracle record holds
NftPolicy(d, tx) ==
  CASE tx.mintRedeemer = "RMint" ->
         /\ tx.spends /\ tx.redeemer = "MintPlutusNFT"
         /\ Cardinality(tx.mints) = 1
         /\ \A nm \in tx.mints : nm[1] \in {"plain", "222"} /\ nm[2] = d.count
    [] tx.mintRedeemer = "RBulkMint" ->
         /\ tx.spends /\ tx.redeemer = "BulkMintPlutusNFT"
         /\ tx.mintRedeemerQty = tx.redeemerQty
         /\ Cardinality(tx.mints) = tx.redeemerQty
         /\ {nm[2] : nm \in tx.mints} = d.count..(d.count + tx.redeemerQty - 1)
         /\ \A nm \in tx.mints : nm[1] \in {"plain", "222"}
    [] tx.mintRedeemer = "RMintCip68" ->
         /\ ~tx.spends
         /\ tx.mints = {<<"100", tx.mintRedeemerQty>>}
         /\ tx.mintRedeemerQty < d.count
    [] OTHER -> tx.mints = {}

\* the oracle token a transaction takes in: one with the oracle input
TokenIn(tx) == IF tx.spends THEN 1 ELSE 0

\* the oracle script lets its token leave only to one successor output at
\* the oracle address; the one-shot policy mints one token
OracleContinues(tx) ==
  /\ tx.oracleMint = (IF tx.path = "setupOracle" THEN 1 ELSE 0)
  /\ tx.oracleOut = TokenIn(tx) + tx.oracleMint

\* a ledger that does not require the referenced resource to still exist
LedgerAccepts_anyInput(tx, o) ==
  IF tx.path = "setupOracle"
  THEN o = NoOracle /\ OracleContinues(tx)
  ELSE /\ o # NoOracle
       /\ OracleContinues(tx)
       /\ (tx.requiredSigner # "none" => tx.signedBy = tx.requiredSigner)
       /\ (tx.spends => OracleValidator(o.datum, tx))
       /\ NftPolicy(o.datum, tx)

\* a transaction is accepted only if the resource it references still exists
LedgerAccepts(tx, o) ==
  IF tx.path = "setupOracle"
  THEN o = NoOracle /\ OracleContinues(tx)
  ELSE /\ o # NoOracle
       /\ OracleContinues(tx)
       /\ tx.input = o.ref
       /\ (tx.requiredSigner # "none" => tx.signedBy = tx.requiredSigner)
       /\ (tx.spends => OracleValidator(o.datum, tx))
       /\ NftPolicy(o.datum, tx)

LedgerApply(tx, o) ==
  IF tx.path = "setupOracle" THEN [ref |-> 1, datum |-> tx.datumOut]
  ELSE IF tx.spends THEN [ref |-> o.ref + 1, datum |-> tx.datumOut]
  ELSE o

\* why the ledger (or the evaluator) turns a transaction down
RejectReason(tx, o) ==
  IF tx.path # "setupOracle" /\ tx.input # o.ref
  THEN "ResourceContention" ELSE "EvaluationFailure"

(***************************************************************************)
(* Inputs                                                                   *)
(***************************************************************************)
BulkQuantities == (0..MaxSupplyBound) \cup {MaxBulkQuantity, MaxBulkQuantity + 1}
Mint100Choices == {Undefined, 0, 1}

\* request lists handed to mintManyPlutusNFT: up to MaxRequests requests,
\* each the plain mint or the reference token of index 1
MaxRequests == 2
MintManyPlutusNFTRequest ==
  {[metadata |-> FALSE, mint100TokenForIndex |-> Undefined, mint222Token |-> TRUE],
   [metadata |-> TRUE, mint100TokenForIndex |-> 1, mint222Token |-> TRUE]}
ManyRequests ==
  UNION {[1..n -> MintManyPlutusNFTRequest] : n \in 0..MaxRequests}

\* treasury addresses a deployment is configured with
Treasuries == {Admin, "treasury"}

(***************************************************************************)
(* Initial state                                                            *)
(***************************************************************************)
(***************************************************************************)
(* Airdrop tool  (scripts/airdrop-refund.ts)                                *)
(***************************************************************************)
\* units held by address a on the ledger
Held(a) == 1 + (a % 2)

\* holder enumerations the indexer returns
HolderCounts == {0, 1, MaxHolders}

RECURSIVE Concat(_)
Concat(seqs) == IF seqs = <<>> THEN <<>> ELSE Head(seqs) \o Concat(Tail(seqs))

\* units held by the addresses 1..a together
HeldUpTo(a) == a + ((a + 1) \div 2)

\* the units of the policy on a ledger with n holding addresses, as the
\* indexer lists them: unit k is {asset, address of its holder}
AssetsOnLedger(n) ==
  [k \in 1..HeldUpTo(n) |->
     [asset |-> k,
      address |-> CHOOSE a \in 1..n : HeldUpTo(a - 1) < k /\ k <= HeldUpTo(a)]]

\* units whose address lookup the indexer answers with an error
LookupFailures == {{}, {1}}

\* results per page of /assets/policy/{policyId}
PageSize == 100

\* getNFTHolders, the page loop: stops at an empty page or a page shorter
\* than 100
RECURSIVE fetchAssets(_, _, _)
fetchAssets(ledgerAssets, page, allAssets) ==
  LET pageAssets == SubSeq(ledgerAssets, (page - 1) * PageSize + 1,
                           Min(page * PageSize, Len(ledgerAssets)))
  IN IF Len(pageAssets) = 0 THEN allAssets
     ELSE IF Len(pageAssets) < PageSize THEN allAssets \o pageAssets
     ELSE fetchAssets(ledgerAssets, page + 1, allAssets \o pageAssets)

\* the holders map after the units of two consecutive runs of the loop:
\* the entries of the first run with the quantities of the second added,
\* then the entries the second run added, in their order
MergeHolders(first, second) ==
  LET firstAddresses == {first[i].address : i \in 1..Len(first)}
      added(a) == IF \E i \in 1..Len(second) : second[i].address = a
                  THEN second[CHOOSE i \in 1..Len(second) :
                                second[i].address = a].quantity
                  ELSE 0
  IN [i \in 1..Len(first) |->
        [first[i] EXCEPT !.quantity = @ + added(first[i].address)]]
     \o SelectSeq(second, LAMBDA h : h.address \notin firstAddresses)

\* getNFTHolders, the loop over the units lo..hi: a unit whose address
\* lookup fails is skipped with a warning; otherwise the quantity of its
\* holder's entry grows by one, a new entry is added at the end of the map.
\* The loop is evaluated by halves to bound the depth of the evaluation.
RECURSIVE groupHolders(_, _, _, _)
groupHolders(allAssets, lo, hi, failedLookups) ==
  IF lo > hi THEN <<>>
  ELSE IF lo = hi
       THEN IF allAssets[lo].asset \in failedLookups THEN <<>>
            ELSE <<[address |-> allAssets[lo].address, quantity |-> 1]>>
  ELSE LET mid == (lo + hi) \div 2
       IN MergeHolders(groupHolders(allAssets, lo, mid, failedLookups),
                       groupHolders(allAssets, mid + 1, hi, failedLookups))

\* getNFTHolders: one {address, quantity} per holding address found
getNFTHolders(n, failedLookups) ==
  LET allAssets == fetchAssets(AssetsOnLedger(n), 1, <<>>)
  IN groupHolders(allAssets, 1, Len(allAssets), failedLookups)

\* the enumerations of the ledgers and lookup failures an execution meets,
\* evaluated once
EnumeratedHolders ==
  [n \in HolderCounts |->
     [failedLookups \in LookupFailures |-> getNFTHolders(n, failedLookups)]]

Null == 0
\* the txHash of a batch that was not submitted

\* truncated marks a file that holds only a beginning of the JSON text
NoLog ==
  [adaPerNft |-> 0, totalHolders |-> 0, totalAmount |-> 0,
   transactions |-> <<>>,
   summary |-> [successful |-> 0, failed |-> 0, totalSent |-> 0],
   truncated |-> FALSE]

\* writeFile opens the file for writing, which empties it, and then writes
\* the text: a process that dies in between leaves the beginning of the text
TruncatedFile == [NoLog EXCEPT !.truncated = TRUE]

\* loadPreviousLog keeping only the first address of each successful entry
loadPreviousLog_first(log) ==
  {log.transactions[k].addresses[1] :
     k \in {k \in 1..Len(log.transactions) :
              /\ log.transactions[k].status = "success"
              /\ log.transactions[k].txHash # Null}}

\* loadPreviousLog taking the addresses of every entry, whatever its status
loadPreviousLog_any(log) ==
  UNION {{log.transactions[k].addresses[j] :
            j \in 1..Len(log.transactions[k].addresses)} :
         k \in 1..Len(log.transactions)}

\* loadPreviousLog: the addresses of the entries marked success with a txHash
loadPreviousLog(log) ==
  UNION {{log.transactions[k].addresses[j] :
            j \in 1..Len(log.transactions[k].addresses)} :
         k \in {k \in 1..Len(log.transactions) :
                  /\ log.transactions[k].status = "success"
                  /\ log.transactions[k].txHash # Null}}

\* holders.filter(h => !successfulAddresses.has(h.address))
RECURSIVE pendingHolders(_, _)
pendingHolders(holders, successfulAddresses) ==
  IF holders = <<>> THEN <<>>
  ELSE IF Head(holders).address \in successfulAddresses
       THEN pendingHolders(Tail(holders), successfulAddresses)
       ELSE <<Head(holders)>> \o pendingHolders(Tail(holders), successfulAddresses)

\* ada-per-nft arguments are written in tenths of ADA: 10 is "1", 41 is "4.1"
FractionalRate == 41
Rates == {10 * k : k \in 1..MaxAdaPerNft} \cup {FractionalRate}

\* Math.floor(adaPerNft * 1_000_000) on the binary64 value parseFloat
\* returns: a whole number of ADA gives an exact product; parseFloat("4.1")
\* is 4.0999999999999996..., the product rounds to 4099999.9999999995 and
\* its floor is 4099999
floorLovelace(adaPerNft) ==
  CASE adaPerNft % 10 = 0 -> (adaPerNft \div 10) * LovelacePerAda
    [] adaPerNft = FractionalRate -> 4099999

\* the refund of one holder, in lovelace
amountLovelace(holder, adaPerNft) ==
  holder.quantity * floorLovelace(adaPerNft)

Recipients(pending, adaPerNft) ==
  [k \in 1..Len(pending) |->
     [address |-> pending[k].address,
      amountLovelace |-> amountLovelace(pending[k], adaPerNft),
      quantity |-> pending[k].quantity]]

RECURSIVE SumAmounts(_)
SumAmounts(recipients) ==
  IF recipients = <<>> THEN 0
  ELSE Head(recipients).amountLovelace + SumAmounts(Tail(recipients))

\* Math.ceil(a / b)
Ceil(a, b) == (a + b - 1) \div b

\* the required balance without the estimated fees
requiredBalance_nofee(recipients) == SumAmounts(recipients)

\* totalLovelace + estimatedFeePerTx * Math.ceil(recipients.length / 50)
requiredBalance(recipients) ==
  SumAmounts(recipients) + estimatedFeePerTx * Ceil(Len(recipients), 50)

\* a slice that takes the element at its end index as well
Slice_inclusive(recipients, i) ==
  SubSeq(recipients, i + 1, Min(i + BATCH_SIZE + 1, Len(recipients)))

\* recipients.slice(i, i + BATCH_SIZE)
Slice(recipients, i) ==
  SubSeq(recipients, i + 1, Min(i + BATCH_SIZE, Len(recipients)))

\* the batches of the loop  for (i = 0; i < recipients.length; i += BATCH_SIZE)
Batches(recipients) ==
  [k \in 1..Ceil(Len(recipients), BATCH_SIZE) |->
     Slice(recipients, (k - 1) * BATCH_SIZE)]

\* wallet balances tried against a required balance
Balances(required) == {required - 1, required}

NoRun ==
  [pc |-> "idle", adaPerNft |-> 0, resumeFrom |-> 0, onLedger |-> 0,
   holders |-> <<>>,
   recipients |-> <<>>, walletBalance |-> Undefined, i |-> 0, log |-> NoLog,
   logPath |-> 0, sent |-> {}, exitCode |-> Undefined, lineage |-> TRUE,
   environment |-> "ok", sending |-> {}]

\* what a route handed to its client, and what it sent to the indexer
Reply(route, network, status, body, upstream) ==
  [route |-> route, network |-> network, status |-> status, body |-> body,
   upstream |-> upstream]
NoUpstream == [url |-> <<>>, project_id |-> <<>>, contentType |-> "none"]
NoExchange == Reply("none", "none", 0, <<>>, NoUpstream)

\* no bulk status has been queried
NoOffer ==
  [pc |-> "none", record |-> NoOracle, maxBulkQuantity |-> 0, quantity |-> 0,
   error |-> "none"]

\* the session has not called mintProjectNFT
NoCall ==
  [pc |-> "none", totalMints |-> 0, index |-> 0, built |-> <<>>,
   txHashes |-> <<>>, earlier |-> {}]

\* no wait or retry loop has run
NoRetry ==
  [operation |-> "none", pc |-> "none", queries |-> 0, slept |-> 0,
   error |-> "none", result |-> "none"]

Init ==
  /\ oracle = NoOracle
  /\ issued = {}
  /\ mempool = {}
  /\ consumed = [r \in 0..(MaxRef + 1) |-> 0]
  /\ lost = 0
  /\ tokenHolders = 0
  /\ mintStatus = "idle"
  /\ polls = {}
  /\ procs = [p \in Wallets |-> IdleProc]
  /\ last = NoOutcome
  /\ run = NoRun
  /\ logFiles = <<>>
  /\ paid = [a \in 1..MaxHolders |-> 0]
  /\ runs = 0
  /\ exchange = NoExchange
  /\ retry = NoRetry
  /\ call = NoCall
  /\ offer = NoOffer

(***************************************************************************)
(* Issuance protocol: actors                                                *)
(***************************************************************************)
\* a user starts an operation once the previous one has ended
Free(p) == p \in Wallets => procs[p].pc = "idle"

\* how an operation ended: pc is "built", "done" or "error"
Ended(p, path, quantity, pc, err) ==
  [by |-> p, path |-> path, quantity |-> quantity, pc |-> pc, err |-> err,
   txs |-> <<>>]

\* the builder returned a transaction to its caller, or threw
Outcome(p, path, quantity, res) ==
  /\ procs' = [procs EXCEPT ![p] =
        IF res.ok THEN [pc |-> "built", tx |-> res.tx] ELSE IdleProc]
  /\ last' = IF res.ok THEN Ended(p, path, quantity, "built", "none")
             ELSE Ended(p, path, quantity, "error", res.error)

\* signing and submission: the caller gets the transaction hash, or the
\* error the submission was refused with
SignAndSubmit(p, path, res) ==
  IF res.ok /\ LedgerAccepts(res.tx, oracle)
  THEN /\ mempool' = mempool \cup {res.tx}
       /\ last' = Ended(p, path, res.tx.redeemerQty, "done", "none")
  ELSE /\ mempool' = mempool
       /\ last' = Ended(p, path, res.tx.redeemerQty, "error",
                    IF res.ok THEN RejectReason(res.tx, oracle) ELSE res.error)

\* what the submission of a completed transaction answers: the transaction
\* hash, or the error the submission was refused with
submitTx(p, tx) ==
  IF LedgerAccepts(tx, oracle)
  THEN Ended(p, tx.path, tx.redeemerQty, "done", "none")
  ELSE Ended(p, tx.path, tx.redeemerQty, "error", RejectReason(tx, oracle))

\* the operator boots the protocol (scripts/init-oracle: setupOracle)
Boot(p, price, maxMints) ==
  /\ p = Admin
  /\ oracle = NoOracle
  /\ Cardinality(mempool) < MaxInFlight
  /\ SignAndSubmit(p, "setupOracle",
                   setupOracle(p, price, <<8, 100>>, 1, maxMints))
  /\ lost' = 0
  /\ UNCHANGED <<tokenHolders, mintStatus, polls>>
  /\ UNCHANGED <<oracle, issued, consumed, procs, airdropVars, gatewayVars, retryVars, callVars>>

\* a caller of the contract class builds a single mint
ClassMint(p, metadataIsPresent, mint100TokenForIndex, mint222Token) ==
  /\ p \in Wallets
  /\ Free(p)
  /\ Outcome(p, "mintPlutusNFT", 1,
             mintPlutusNFT(p, oracle, metadataIsPresent,
                           mint100TokenForIndex, mint222Token))
  /\ lost' = 0
  /\ UNCHANGED <<tokenHolders, mintStatus, polls>>
  /\ UNCHANGED <<oracle, issued, mempool, consumed, airdropVars, gatewayVars, retryVars, callVars>>

\* a caller of the contract class builds a bulk mint
ClassBulk(p, quantity) ==
  /\ p \in Wallets
  /\ Free(p)
  /\ Outcome(p, "mintBulkPlutusNFT", quantity,
             mintBulkPlutusNFT(p, oracle, quantity))
  /\ lost' = 0
  /\ UNCHANGED <<tokenHolders, mintStatus, polls>>
  /\ UNCHANGED <<oracle, issued, mempool, consumed, airdropVars, gatewayVars, retryVars, callVars>>

\* a caller of the contract class builds one mint per request
ClassMintMany(p, requests) ==
  /\ p \in Wallets
  /\ Free(p)
  /\ LET res == mintManyPlutusNFT(p, oracle, requests)
     IN last' = [Ended(p, "mintManyPlutusNFT", Len(requests),
                       IF res.ok THEN "built" ELSE "error", res.error)
                 EXCEPT !.txs = res.txs]
  /\ lost' = 0
  /\ UNCHANGED <<tokenHolders, mintStatus, polls, procs>>
  /\ UNCHANGED <<oracle, issued, mempool, consumed, airdropVars, gatewayVars, retryVars, callVars>>

\* a wallet holder toggles issuance: setNFTMinting(enabled), sign, submit
ToggleMinting(p, onOrOff) ==
  /\ Free(p)
  /\ Cardinality(mempool) < MaxInFlight
  /\ SignAndSubmit(p, "setNFTMinting", setNFTMinting(p, oracle, onOrOff))
  /\ lost' = 0
  /\ UNCHANGED <<tokenHolders, mintStatus, polls>>
  /\ UNCHANGED <<oracle, issued, consumed, procs, airdropVars, gatewayVars, retryVars, callVars>>

\* a wallet holder toggles transfer: setNFTTrading(enabled), sign, submit
ToggleTrading(p, onOrOff) ==
  /\ Free(p)
  /\ Cardinality(mempool) < MaxInFlight
  /\ SignAndSubmit(p, "setNFTTrading", setNFTTrading(p, oracle, onOrOff))
  /\ lost' = 0
  /\ UNCHANGED <<tokenHolders, mintStatus, polls>>
  /\ UNCHANGED <<oracle, issued, consumed, procs, airdropVars, gatewayVars, retryVars, callVars>>

\* the operations of the mint hook
HookPaths == {"executeSingleMint", "mintProjectNFTBulk"}

\* the status the hook sets when a step of it ends: 'signing' with the
\* completed transaction in hand, 'success' after submission, 'error' in
\* the catch block
StatusOf(ended) ==
  CASE ended.pc = "built" -> "signing"
    [] ended.pc = "done" -> "success"
    [] OTHER -> "error"

\* the token id a single mint was assembled for
TokenIdOf(tx) == CHOOSE i \in 0..(MaxSupplyBound + 1) : \A nm \in tx.mints : nm[2] = i

\* a handler that reports a poll that gave up as a failed mint
onOracleUpdated_failed(prevStatus, oracleUpdated) ==
  IF ~oracleUpdated THEN "error" ELSE prevStatus

\* the handler of the background confirmation's result: a poll that gave up
\* turns 'confirming' or 'success' into 'warning' and leaves any other
\* status as it is
onOracleUpdated(prevStatus, oracleUpdated) ==
  IF ~oracleUpdated /\ prevStatus \in {"confirming", "success"}
  THEN "warning"
  ELSE prevStatus

\* waitForOracleUpdate sees status report an index >= expectedIndex and
\* returns true
PollSeen(expectedIndex) ==
  /\ expectedIndex \in polls
  /\ oracle # NoOracle
  /\ oracle.datum.count >= expectedIndex
  /\ polls' = polls \ {expectedIndex}
  /\ mintStatus' = onOracleUpdated(mintStatus, TRUE)
  /\ lost' = 0
  /\ UNCHANGED <<oracle, issued, mempool, consumed, tokenHolders, procs, last,
                 airdropVars, gatewayVars, retryVars, callVars>>

\* waitForOracleUpdate runs out of time (no poll saw the index, or the
\* polls failed) and returns false
PollGiveUp(expectedIndex) ==
  /\ expectedIndex \in polls
  /\ polls' = polls \ {expectedIndex}
  /\ mintStatus' = onOracleUpdated(mintStatus, FALSE)
  /\ lost' = 0
  /\ UNCHANGED <<oracle, issued, mempool, consumed, tokenHolders, procs, last,
                 airdropVars, gatewayVars, retryVars, callVars>>

\* the scripts of a transaction that fail on the oracle record o, keyed as
\* the evaluation response keys them
ScriptFailures(tx, o) ==
  (IF tx.spends /\ ~(OracleValidator(o.datum, tx) /\ OracleContinues(tx))
   THEN {"spend:0"} ELSE {})
  \cup (IF ~NftPolicy(o.datum, tx) THEN {"mint:0"} ELSE {})

\* the indexer's answer to /utils/txs/evaluate for a transaction
EvaluationResponse(tx, o) ==
  IF LedgerAccepts(tx, o)
  THEN [result |-> "EvaluationResult", ScriptFailures |-> {}]
  ELSE [result |-> "EvaluationFailure", ScriptFailures |-> ScriptFailures(tx, o)]

\* `Script evaluation failed: ${failureDetails}`: one "key: value" per
\* failed script, joined with ", "
ScriptFailureMessage(failures) ==
  CASE failures = {"spend:0"} -> "Script evaluation failed: spend:0"
    [] failures = {"mint:0"} -> "Script evaluation failed: mint:0"
    [] failures = {"spend:0", "mint:0"} ->
         "Script evaluation failed: spend:0, mint:0"

NoDetailMessage == "Script evaluation failed with no specific error details"

\* an evaluateTx that reports every failure without its detail
evaluateTx_nodetail(data) ==
  IF data.result = "EvaluationFailure"
  THEN [ok |-> FALSE, error |-> NoDetailMessage]
  ELSE [ok |-> TRUE, error |-> "none"]

\* ProxiedBlockfrostProvider.evaluateTx: throws on EvaluationFailure, with
\* the detail of each failed script when the response has any
evaluateTx(data) ==
  IF data.result = "EvaluationFailure"
  THEN IF data.ScriptFailures # {}
       THEN [ok |-> FALSE, error |-> ScriptFailureMessage(data.ScriptFailures)]
       ELSE [ok |-> FALSE, error |-> NoDetailMessage]
  ELSE [ok |-> TRUE, error |-> "none"]

\* tx.complete() evaluates the scripts of the assembled transaction against
\* the ledger and throws when the evaluation fails
Complete(tx) ==
  LET evaluation == evaluateTx(EvaluationResponse(tx, oracle))
  IN IF evaluation.ok THEN Built(tx) ELSE Thrown(evaluation.error)

\* the quantities mintProjectNFT is called with
Quantities == 0..MaxSupplyBound

\* mintProjectNFT: the number of single mints the loop makes
totalMints(quantity) == Max(1, quantity)

\* executeSingleMint after the submission: recordTokenEventWithRetry is
\* awaited inside the try block, so its throw reaches the catch block
TokenEvent(ended, recorded) ==
  IF ended.pc = "done" /\ ~recorded
  THEN [ended EXCEPT !.pc = "error", !.err = "TokenEventNotRecorded"]
  ELSE ended

\* the loop of mintProjectNFT after one step of executeSingleMint: the
\* assembled transaction, the pushed txHash and the next index, the return
\* after the last mint, or the exception that leaves the loop
LoopStep(c, p, ended, tx) ==
  IF p # Session \/ c.pc # "running" \/ ended.path # "executeSingleMint"
  THEN c
  ELSE CASE ended.pc = "built" ->
              [c EXCEPT !.built = Append(@, [tokenId |-> TokenIdOf(tx),
                                             input |-> tx.input])]
         [] ended.pc = "done" ->
              [c EXCEPT !.txHashes = Append(@, tx), !.index = @ + 1,
                        !.pc = IF c.index + 1 = c.totalMints
                               THEN "returned" ELSE "running"]
         [] OTHER -> [c EXCEPT !.pc = "threw"]

\* the status after a step of the hook: between two mints of the loop the
\* status goes back to 'preparing'
LoopStatus(c, ended) ==
  IF c.pc = "running" /\ ended.pc = "done" /\ c.index + 1 < c.totalMints
  THEN "preparing"
  ELSE StatusOf(ended)

\* mintProjectNFT is called in the session: the loop starts and
\* executeSingleMint sets 'preparing'
CallMint(quantity) ==
  /\ Free(Session)
  /\ call.pc # "running"
  /\ call' = [pc |-> "running", totalMints |-> totalMints(quantity),
              index |-> 0, built |-> <<>>, txHashes |-> <<>>,
              earlier |-> polls]
  /\ mintStatus' = "preparing"
  /\ lost' = 0
  /\ UNCHANGED <<oracle, issued, mempool, consumed, tokenHolders, procs, last,
                 polls, offer, airdropVars, gatewayVars, retryVars>>

\* executeSingleMint: POST /api/cardano/mint, the checks on its response,
\* transaction assembly and tx.complete().  devOverride is the server's
\* environment: NODE_ENV=development with the mint check override set.
PrepareSingle(p, devOverride) ==
  /\ p \in Wallets
  /\ Free(p)
  /\ LET mintData == MintRoutePOST(1, oracle, devOverride)
     IN Outcome(p, "executeSingleMint", 1,
                IF mintData.ok THEN Complete(executeSingleMintTx(p, mintData))
                ELSE Thrown(mintData.error))
  /\ lost' = 0
  /\ mintStatus' = IF p = Session THEN StatusOf(last') ELSE mintStatus
  /\ call' = LoopStep(call, p, last',
                      IF procs'[p].pc = "built" THEN procs'[p].tx ELSE NoTx)
  /\ UNCHANGED <<tokenHolders, polls>>
  /\ UNCHANGED <<oracle, issued, mempool, consumed, offer, airdropVars, gatewayVars, retryVars>>

\* mintProjectNFTBulk: quantity check, POST /api/cardano/mint-bulk,
\* transaction assembly and tx.complete()
PrepareBulk(p, quantity, devOverride) ==
  /\ p \in Wallets
  /\ Free(p)
  /\ LET mintData == IF quantity <= 0 \/ quantity > MaxBulkQuantity
                     THEN Failed("InvalidQuantity")
                     ELSE MintBulkRoutePOST(quantity, oracle, devOverride)
     IN Outcome(p, "mintProjectNFTBulk", quantity,
                IF mintData.ok
                THEN Complete(mintProjectNFTBulkTx(p, mintData, quantity))
                ELSE Thrown(mintData.error))
  /\ lost' = 0
  /\ mintStatus' = IF p = Session THEN StatusOf(last') ELSE mintStatus
  /\ UNCHANGED <<tokenHolders, polls>>
  /\ UNCHANGED <<oracle, issued, mempool, consumed, airdropVars, gatewayVars, retryVars, callVars>>

\* a client posts a snapshot it fetched, a price and a token id to
\* /api/cardano/build-tx and gets the unsigned transaction or an error
BuildTx(p, lovelacePrice, tokenId, treasuryAddress) ==
  /\ p \in Wallets
  /\ Free(p)
  /\ Outcome(p, "buildTx", 1,
             IF oracle = NoOracle THEN Thrown("OracleNotFound")
             ELSE Complete(BuildTxPOST(p, oracle, lovelacePrice, tokenId,
                                       treasuryAddress)))
  /\ lost' = 0
  /\ UNCHANGED <<tokenHolders, mintStatus, polls>>
  /\ UNCHANGED <<oracle, issued, mempool, consumed, airdropVars, gatewayVars, retryVars, callVars>>

\* the caller signs and submits the transaction it holds; nothing in the
\* callers retries.  The mint hook then records the token event: recorded
\* is FALSE when /api/token-event refuses every attempt.
Submit(p, recorded) ==
  /\ p \in Wallets
  /\ procs[p].pc = "built"
  /\ Cardinality(mempool) < MaxInFlight
  /\ ~recorded => p = Session /\ procs[p].tx.path \in HookPaths
  /\ mempool' = IF LedgerAccepts(procs[p].tx, oracle)
                THEN mempool \cup {procs[p].tx} ELSE mempool
  /\ last' = TokenEvent(submitTx(p, procs[p].tx), recorded)
  /\ procs' = [procs EXCEPT ![p] = IdleProc]
  /\ lost' = 0
  /\ mintStatus' = IF p = Session /\ procs[p].tx.path \in HookPaths
                   THEN LoopStatus(call, last')
                   ELSE mintStatus
  /\ call' = LoopStep(call, p, last', procs[p].tx)
  /\ polls' = IF /\ p = Session
                 /\ procs[p].tx.path = "executeSingleMint"
                 /\ last'.pc = "done"
              THEN polls \cup {TokenIdOf(procs[p].tx) + 1}
              ELSE polls
  /\ UNCHANGED tokenHolders
  /\ UNCHANGED <<oracle, issued, consumed, offer, airdropVars, gatewayVars, retryVars>>

(***************************************************************************)
(* Issuance protocol: ledger                                                *)
(***************************************************************************)
\* one submitted transaction settles; the submitted transactions that
\* reference a resource it consumed can never settle and are dropped
LedgerSettle(tx) ==
  /\ tx \in mempool
  /\ oracle.ref < MaxRef
  /\ LedgerAccepts(tx, oracle)
  /\ oracle' = LedgerApply(tx, oracle)
  /\ issued' = issued \cup tx.mints
  /\ mempool' = {t \in mempool \ {tx} : t.input = oracle'.ref}
  /\ consumed' = IF tx.spends THEN [consumed EXCEPT ![tx.input] = @ + 1]
                 ELSE consumed
  /\ lost' = Cardinality({t \in mempool \ {tx} : t.input # oracle'.ref})
  /\ tokenHolders' = tokenHolders - TokenIn(tx) + tx.oracleOut
  /\ UNCHANGED <<procs, last, mintStatus, polls, airdropVars, gatewayVars, retryVars, callVars>>

\* the web application: API routes and client hook, the operator's toggles
Next ==
  \/ \E price \in {MaxPrice}, maxMints \in {MaxSupplyBound} :
       Boot(Admin, price, maxMints)
  \/ \E p \in Procs, b \in BOOLEAN : ToggleMinting(p, b)
  \/ \E p \in Users, devOverride \in BOOLEAN : PrepareSingle(p, devOverride)
  \/ \E p \in Users, q \in BulkQuantities, devOverride \in BOOLEAN :
       PrepareBulk(p, q, devOverride)
  \/ \E p \in Users : Submit(p, TRUE)
  \/ \E tx \in mempool : LedgerSettle(tx)

Spec == Init /\ [][Next]_vars

\* one browser session of the mint hook, its status display and its
\* background confirmations
HookNext ==
  \/ \E price \in {MaxPrice}, maxMints \in {MaxSupplyBound} :
       Boot(Admin, price, maxMints)
  \/ \E devOverride \in BOOLEAN : PrepareSingle(Session, devOverride)
  \/ \E q \in BulkQuantities, devOverride \in BOOLEAN :
       PrepareBulk(Session, q, devOverride)
  \/ Submit(Session, TRUE)
  \/ \E expectedIndex \in polls : PollSeen(expectedIndex)
  \/ \E expectedIndex \in polls : PollGiveUp(expectedIndex)
  \/ \E tx \in mempool : LedgerSettle(tx)

HookSpec == Init /\ [][HookNext]_vars

\* one browser session that calls mintProjectNFT: the loop of single mints,
\* the token event of each of them and the background confirmations
CallNext ==
  \/ \E price \in {MaxPrice}, maxMints \in {MaxSupplyBound} :
       Boot(Admin, price, maxMints)
  \/ \E quantity \in Quantities : CallMint(quantity)
  \/ \E devOverride \in BOOLEAN :
       call.pc = "running" /\ PrepareSingle(Session, devOverride)
  \/ \E recorded \in BOOLEAN :
       call.pc = "running" /\ Submit(Session, recorded)
  \/ \E expectedIndex \in polls : PollSeen(expectedIndex)
  \/ \E expectedIndex \in polls : PollGiveUp(expectedIndex)
  \/ \E tx \in mempool : LedgerSettle(tx)

CallSpec == Init /\ [][CallNext]_vars

\* the two bulk builders side by side: the mint hook's and the contract
\* class's, used by one caller
BulkNext ==
  \/ \E price \in {MaxPrice}, maxMints \in {MaxSupplyBound} :
       Boot(Admin, price, maxMints)
  \/ \E p \in ClassCallers, q \in BulkQuantities, devOverride \in BOOLEAN :
       PrepareBulk(p, q, devOverride)
  \/ \E p \in ClassCallers, q \in BulkQuantities : ClassBulk(p, q)
  \/ \E p \in ClassCallers \cup {Admin}, b \in BOOLEAN : ToggleMinting(p, b)
  \/ \E p \in ClassCallers : Submit(p, TRUE)
  \/ \E tx \in mempool : LedgerSettle(tx)

BulkSpec == Init /\ [][BulkNext]_vars

\* oracle records of deployed projects: small, just over the prepare
\* route's limit and just over the status route's limit, with a few units
\* issued
SupplyExamples == {MaxSupplyBound, MaxBulkQuantity + 1, MaxAdvertised + 1}

OracleExamples ==
  {[ref |-> 1,
    datum |-> oracleDatum(count, MaxPrice, Admin, allowed, TRUE, 8, 100, 1,
                          max_mints)] :
     count \in 0..MaxSupplyBound, allowed \in BOOLEAN,
     max_mints \in SupplyExamples}

\* a client asks GET /api/cardano/mint-bulk for the bulk status of a record
StatusQuery(o) ==
  /\ offer' = [NoOffer EXCEPT !.pc = "advertised", !.record = o,
                !.maxBulkQuantity = MintBulkRouteGET(o).maxBulkQuantity]
  /\ lost' = 0
  /\ UNCHANGED <<oracle, issued, mempool, consumed, tokenHolders, procs, last,
                 mintStatus, polls, call, airdropVars, gatewayVars,
                 retryVars>>

\* the client posts a quantity the status advertised as allowed to
\* /api/cardano/mint-bulk, the record unchanged
PrepareAdvertised(quantity, devOverride) ==
  /\ offer.pc = "advertised"
  /\ quantity \in 1..offer.maxBulkQuantity
  /\ offer' = [offer EXCEPT !.pc = "answered", !.quantity = quantity,
                !.error = MintBulkRoutePOST(quantity, offer.record,
                                            devOverride).error]
  /\ lost' = 0
  /\ UNCHANGED <<oracle, issued, mempool, consumed, tokenHolders, procs, last,
                 mintStatus, polls, call, airdropVars, gatewayVars,
                 retryVars>>

OfferNext ==
  \/ \E o \in OracleExamples : StatusQuery(o)
  \/ \E quantity \in 1..MaxAdvertised, devOverride \in BOOLEAN :
       PrepareAdvertised(quantity, devOverride)

OfferSpec == Init /\ [][OfferNext]_vars

\* one caller of the server-side builders: the contract class and the
\* build-tx route
ClassNext ==
  \/ \E price \in {MaxPrice}, maxMints \in {MaxSupplyBound} :
       Boot(Admin, price, maxMints)
  \/ \E p \in ClassCallers, meta \in BOOLEAN, m100 \in Mint100Choices,
        m222 \in BOOLEAN :
       ClassMint(p, meta, m100, m222)
  \/ \E p \in ClassCallers, q \in BulkQuantities : ClassBulk(p, q)
  \/ \E p \in ClassCallers \cup {Admin}, b \in BOOLEAN : ToggleMinting(p, b)
  \/ \E p \in ClassCallers \cup {Admin}, b \in BOOLEAN : ToggleTrading(p, b)
  \/ \E p \in ClassCallers, lovelacePrice \in 1..MaxPrice,
        tokenId \in 0..MaxSupplyBound, treasuryAddress \in Treasuries :
       BuildTx(p, lovelacePrice, tokenId, treasuryAddress)
  \/ \E p \in ClassCallers : Submit(p, TRUE)
  \/ \E tx \in mempool : LedgerSettle(tx)

ClassSpec == Init /\ [][ClassNext]_vars

\* callers of the contract class that mint one by one or by request list
ManyNext ==
  \/ \E price \in {MaxPrice}, maxMints \in {MaxSupplyBound} :
       Boot(Admin, price, maxMints)
  \/ \E p \in ClassCallers, meta \in BOOLEAN, m100 \in Mint100Choices :
       ClassMint(p, meta, m100, TRUE)
  \/ \E p \in ClassCallers, requests \in ManyRequests :
       ClassMintMany(p, requests)
  \/ \E p \in ClassCallers : Submit(p, TRUE)
  \/ \E tx \in mempool : LedgerSettle(tx)

ManySpec == Init /\ [][ManyNext]_vars

(***************************************************************************)
(* Airdrop tool: one execution of airdropRefund                             *)
(***************************************************************************)
\* what airdropRefund finds before it reads the ledger: everything in
\* place, no Blockfrost key for the network, no usable PAYMENT_MNEMONIC, or
\* a --resume-from file that does not exist
Environments == {"ok", "noApiKey", "noMnemonic", "logNotFound"}

\* a catch block that returns instead of calling process.exit(1)
Exited_returns(r, code) == [r EXCEPT !.pc = "exited",
                                    !.exitCode = IF code = 1 THEN 0 ELSE code]

\* process exit: 0 when airdropRefund returns, 1 from its catch block
Exited(r, code) == [r EXCEPT !.pc = "exited", !.exitCode = code]

\* airdropRefund up to the batch loop: resume log, holder enumeration,
\* pending filter, refund amounts, balance check, log initialisation
StartRun(adaPerNft, resumeFromLog, n, failedLookups, environment) ==
  /\ run.pc \in {"idle", "exited"}
  /\ runs < MaxRuns
  \* without a log, or from the log of the latest execution that wrote one
  /\ resumeFromLog \in {0, Len(logFiles)}
  \* re-executions are given the same ada-per-nft value
  /\ run.adaPerNft \in {0, adaPerNft}
  /\ LET successfulAddresses ==
           IF resumeFromLog # 0 THEN loadPreviousLog(logFiles[resumeFromLog])
           ELSE {}
         holders == EnumeratedHolders[n][failedLookups]
         pending == pendingHolders(holders, successfulAddresses)
         recipients == Recipients(pending, adaPerNft)
         totalLovelace == SumAmounts(recipients)
         started == [NoRun EXCEPT
                  !.adaPerNft = adaPerNft, !.resumeFrom = resumeFromLog,
                  !.environment = environment,
                  !.lineage = run.lineage /\ resumeFromLog = Len(logFiles)]
         r0 == [started EXCEPT !.holders = holders, !.onLedger = n]
     IN IF environment # "ok" THEN run' = Exited(started, 1)
        \* JSON.parse throws on a file that is not a whole JSON text
        ELSE IF resumeFromLog # 0 /\ logFiles[resumeFromLog].truncated
        THEN run' = Exited(started, 1)
        ELSE IF Len(holders) = 0 THEN run' = Exited(r0, 0)
        ELSE IF Len(pending) = 0 THEN run' = Exited(r0, 0)
        ELSE \E walletBalance \in Balances(requiredBalance(recipients)) :
               LET r1 == [r0 EXCEPT !.recipients = recipients,
                                    !.walletBalance = walletBalance]
               IN IF walletBalance < requiredBalance(recipients)
                  THEN run' = Exited(r1, 1)
                  ELSE run' = [r1 EXCEPT
                         !.pc = "loop",
                         !.log = [NoLog EXCEPT
                                    !.adaPerNft = adaPerNft,
                                    !.totalHolders = Len(holders),
                                    !.totalAmount = totalLovelace]]
  /\ runs' = runs + 1
  /\ UNCHANGED <<logFiles, paid, mintVars, gatewayVars, retryVars, callVars>>

\* a summary that counts the addresses of a failed batch nowhere
Summary_dropsFailed(sm, txHash, batchLength, batchTotal) ==
  IF txHash # Null
  THEN [sm EXCEPT !.successful = @ + batchLength, !.totalSent = @ + batchTotal]
  ELSE sm

\* the counters after a batch, as written to log.summary: a batch with a
\* txHash adds to successfulCount and totalSent, one without adds to
\* failedCount
Summary(sm, txHash, batchLength, batchTotal) ==
  IF txHash # Null
  THEN [sm EXCEPT !.successful = @ + batchLength, !.totalSent = @ + batchTotal]
  ELSE [sm EXCEPT !.failed = @ + batchLength]

\* one iteration of the batch loop: sendBatch, the log entry, writeFile
\* accepted: the ledger took the batch's transaction; returned:
\* wallet.submitTx returned its hash (it can throw, or not be reached)
ProcessBatch(accepted, returned) ==
  /\ run.pc = "loop"
  /\ returned => accepted
  /\ LET batch == Slice(run.recipients, run.i)
         batchAddresses == [k \in 1..Len(batch) |-> batch[k].address]
         batchAmounts == [k \in 1..Len(batch) |-> batch[k].amountLovelace]
         txHash == IF returned
                   THEN 100 * runs + (run.i \div BATCH_SIZE) + 1 ELSE Null
         batchTotal == SumAmounts(batch)
         sm == run.log.summary
         log == [run.log EXCEPT
                  !.transactions = Append(@,
                     [txHash |-> txHash, addresses |-> batchAddresses,
                      amounts |-> batchAmounts,
                      status |-> IF txHash # Null THEN "success" ELSE "failed"]),
                  !.summary = Summary(sm, txHash, Len(batch), batchTotal)]
         logPath == IF run.logPath = 0 THEN Len(logFiles) + 1 ELSE run.logPath
         r1 == [run EXCEPT
                  !.log = log, !.logPath = logPath,
                  !.sent = @ \cup {batch[k].address : k \in 1..Len(batch)},
                  !.sending = @ \ {(run.i \div BATCH_SIZE) + 1},
                  !.i = @ + BATCH_SIZE]
     IN /\ paid' = [a \in DOMAIN paid |->
                      IF accepted /\ \E k \in 1..Len(batch) : batch[k].address = a
                      THEN paid[a] + 1 ELSE paid[a]]
        /\ logFiles' = IF run.logPath = 0 THEN Append(logFiles, log)
                       ELSE [logFiles EXCEPT ![run.logPath] = log]
        /\ run' = IF r1.i < Len(run.recipients) THEN r1 ELSE Exited(r1, 0)
  /\ UNCHANGED <<runs, mintVars, gatewayVars, retryVars, callVars>>

\* a loop that calls sendBatch for the next batch without awaiting the
\* call before it
SendReturned_noawait(r) == TRUE

\* await sendBatch(...): the loop goes on when the call has returned
SendReturned(r) == r.sending = {}

\* the loop calls sendBatch for the next batch number
BatchSend ==
  /\ run.pc = "loop"
  /\ SendReturned(run)
  /\ LET batchNum == (run.i \div BATCH_SIZE) + 1 + Cardinality(run.sending)
     IN /\ (batchNum - 1) * BATCH_SIZE < Len(run.recipients)
        /\ run' = [run EXCEPT !.sending = @ \cup {batchNum}]
  /\ UNCHANGED <<logFiles, paid, runs, mintVars, gatewayVars, retryVars, callVars>>

\* the process dies inside an iteration of the batch loop: after sendBatch
\* returned and before writeFile was called, or inside writeFile after the
\* file was opened
Crash(accepted, point) ==
  /\ run.pc = "loop"
  /\ LET batch == Slice(run.recipients, run.i)
         logPath == IF run.logPath = 0 THEN Len(logFiles) + 1 ELSE run.logPath
         r1 == [run EXCEPT
                  !.sent = @ \cup {batch[k].address : k \in 1..Len(batch)},
                  !.logPath = IF point = "inWrite" THEN logPath ELSE @]
     IN /\ paid' = [a \in DOMAIN paid |->
                      IF accepted /\ \E k \in 1..Len(batch) : batch[k].address = a
                      THEN paid[a] + 1 ELSE paid[a]]
        /\ logFiles' = IF point # "inWrite" THEN logFiles
                       ELSE IF run.logPath = 0
                       THEN Append(logFiles, TruncatedFile)
                       ELSE [logFiles EXCEPT ![run.logPath] = TruncatedFile]
        /\ run' = Exited(r1, 137)
  /\ UNCHANGED <<runs, mintVars, gatewayVars, retryVars, callVars>>

CrashPoints == {"afterSend", "inWrite"}

\* the operator interrupts the execution between two batches
Interrupt ==
  /\ run.pc = "loop"
  /\ run' = Exited(run, 130)
  /\ UNCHANGED <<logFiles, paid, runs, mintVars, gatewayVars, retryVars, callVars>>

AirdropNext ==
  \/ \E adaPerNft \in Rates, resumeFromLog \in 0..MaxRuns,
        n \in HolderCounts, environment \in Environments :
       StartRun(adaPerNft, resumeFromLog, n, {}, environment)
  \/ \E accepted \in BOOLEAN : ProcessBatch(accepted, accepted)
  \/ Interrupt

AirdropSpec == Init /\ [][AirdropNext]_vars

\* first executions of the airdrop tool at a whole rate, with an indexer
\* that may answer an address lookup with an error
HoldersNext ==
  \/ \E n \in HolderCounts, failedLookups \in LookupFailures :
       StartRun(10, 0, n, failedLookups, "ok")
  \/ \E accepted \in BOOLEAN : ProcessBatch(accepted, accepted)
  \/ Interrupt

HoldersSpec == Init /\ [][HoldersNext]_vars

\* executions of the airdrop tool at a whole rate, with the call of
\* sendBatch and its return as separate steps
SendNext ==
  \/ \E resumeFromLog \in 0..MaxRuns, n \in HolderCounts :
       StartRun(10, resumeFromLog, n, {}, "ok")
  \/ BatchSend
  \/ \E accepted \in BOOLEAN : run.sending # {} /\ ProcessBatch(accepted, accepted)

SendSpec == Init /\ [][SendNext]_vars

\* what wallet.submitTx does with a batch's transaction: the ledger takes
\* it and the hash comes back, the ledger refuses it and the call throws,
\* or the ledger takes it and the answer does not arrive, so the call throws
SubmitOutcomes ==
  {[accepted |-> TRUE, returned |-> TRUE],
   [accepted |-> FALSE, returned |-> FALSE],
   [accepted |-> TRUE, returned |-> FALSE]}

\* executions of the airdrop tool at a whole rate, with every outcome of
\* the submission
SubmitNext ==
  \/ \E resumeFromLog \in 0..MaxRuns, n \in HolderCounts :
       StartRun(10, resumeFromLog, n, {}, "ok")
  \/ \E outcome \in SubmitOutcomes :
       ProcessBatch(outcome.accepted, outcome.returned)

SubmitSpec == Init /\ [][SubmitNext]_vars

\* executions of the airdrop tool at a whole rate on a machine where the
\* process can die inside an iteration
CrashNext ==
  \/ \E resumeFromLog \in 0..MaxRuns, n \in HolderCounts :
       StartRun(10, resumeFromLog, n, {}, "ok")
  \/ \E accepted \in BOOLEAN : ProcessBatch(accepted, accepted)
  \/ \E accepted \in BOOLEAN, point \in CrashPoints : Crash(accepted, point)

CrashSpec == Init /\ [][CrashNext]_vars

(***************************************************************************)
(* Bounded waits                                                            *)
(***************************************************************************)
\* waitForCollateral(wallet, attempts = 10, delayMs = 3_000), and
\* maxAttempts = 10 with a 3000 ms timeout in sendBatch
attempts == 10
delayMs == 3000

\* the builders of the contract class that call getWalletInfoForTx
ClassOperations ==
  {"setupOracle", "mintPlutusNFT", "mintBulkPlutusNFT", "setNFTMinting",
   "setNFTTrading"}
WaitingOperations == ClassOperations \cup {"sendBatch"}

\* what wallet.getCollateral() answers during the wait
CollateralAnswers == {"visible", "empty", "throws"}

\* a wait that never runs out of attempts
KeepWaiting_forever(r) == TRUE

\* for (let i = 0; i < attempts; i += 1)  /  while (attempts < maxAttempts)
KeepWaiting(r) == r.queries < attempts

\* the wallet has no collateral: createCollateral() is submitted and the
\* wait for the new UTxO starts
CollateralCreate(operation) ==
  /\ retry.pc # "waiting"
  /\ retry' = [NoRetry EXCEPT !.operation = operation, !.pc = "waiting",
                              !.result = "pending"]
  /\ UNCHANGED <<mintVars, airdropVars, gatewayVars, callVars>>

\* one iteration of waitForCollateral inside getWalletInfoForTx: the query,
\* then the delay; after the last iteration getWalletInfoForTx throws
ClassIteration(r, answer) ==
  LET queried == [r EXCEPT !.queries = @ + 1]
      delayed == [queried EXCEPT !.slept = @ + delayMs]
  IN IF answer = "visible"
     THEN [queried EXCEPT !.pc = "ready", !.result = "proceeds"]
     ELSE IF KeepWaiting(delayed) THEN delayed
     ELSE [delayed EXCEPT !.pc = "gaveUp", !.result = "throws",
                          !.error = "collateral UTxO not available yet"]

\* one iteration of the wait inside sendBatch: the delay, then the query;
\* a throw leaves the try block, and so does the throw after the loop
BatchIteration(r, answer) ==
  LET delayed == [r EXCEPT !.slept = @ + delayMs]
      queried == [delayed EXCEPT !.queries = @ + 1]
  IN IF answer = "throws"
     THEN [queried EXCEPT !.pc = "gaveUp", !.result = "batchFailed",
                          !.error = "getCollateral failed"]
     ELSE IF answer = "visible"
     THEN [queried EXCEPT !.pc = "ready", !.result = "proceeds"]
     ELSE IF KeepWaiting(queried) THEN queried
     ELSE [queried EXCEPT !.pc = "gaveUp", !.result = "batchFailed",
                          !.error = "Failed to create collateral"]

CollateralQuery(answer) ==
  /\ retry.pc = "waiting"
  /\ retry.operation \in WaitingOperations
  /\ retry' = IF retry.operation = "sendBatch"
              THEN BatchIteration(retry, answer)
              ELSE ClassIteration(retry, answer)
  /\ UNCHANGED <<mintVars, airdropVars, gatewayVars, callVars>>

CollateralNext ==
  \/ \E operation \in WaitingOperations : CollateralCreate(operation)
  \/ \E answer \in CollateralAnswers : CollateralQuery(answer)

CollateralSpec == Init /\ [][CollateralNext]_vars

\* recordTokenEventWithRetry(..., maxRetries = 3)
maxRetries == 3

\* Math.pow(2, attempt) * 1000
Backoff(attempt) == (2 ^ attempt) * 1000

\* what POST /api/token-event answers: recorded, a status that is not ok,
\* a body without the success message, or no answer (fetch throws)
TokenEventAnswers == {"recorded", "notOk", "unsuccessful", "throws"}

\* the calls that can fail: the token event call of the mint hook and the
\* asset page fetch of the airdrop tool
Calls == {"recordTokenEvent", "fetchAssetsPage"}

CallStart(operation) ==
  /\ retry.pc # "waiting"
  /\ retry' = [NoRetry EXCEPT !.operation = operation, !.pc = "waiting",
                              !.result = "pending"]
  /\ UNCHANGED <<mintVars, airdropVars, gatewayVars, callVars>>

\* one iteration of recordTokenEventWithRetry's loop; after the last one
\* the function throws
RecordAttempt(answer) ==
  /\ retry.pc = "waiting"
  /\ retry.operation = "recordTokenEvent"
  /\ LET attempt == retry.queries
         tried == [retry EXCEPT !.queries = @ + 1]
     IN retry' =
          IF answer = "recorded"
          THEN [tried EXCEPT !.pc = "ready", !.result = "returns"]
          ELSE IF attempt < maxRetries - 1
          THEN [tried EXCEPT !.slept = @ + Backoff(attempt)]
          ELSE [tried EXCEPT !.pc = "gaveUp", !.result = "throws",
                  !.error = "Failed to record token event after 3 attempts"]
  /\ UNCHANGED <<mintVars, airdropVars, gatewayVars, callVars>>

\* the fetch of one page of the policy's assets in getNFTHolders: a
\* response that is not ok is thrown at once
PageFetch(ok) ==
  /\ retry.pc = "waiting"
  /\ retry.operation = "fetchAssetsPage"
  /\ LET tried == [retry EXCEPT !.queries = @ + 1]
     IN retry' =
          IF ok THEN [tried EXCEPT !.pc = "ready", !.result = "returns"]
          ELSE [tried EXCEPT !.pc = "gaveUp", !.result = "throws",
                             !.error = "Failed to fetch assets"]
  /\ UNCHANGED <<mintVars, airdropVars, gatewayVars, callVars>>

\* every bounded wait and every call that can fail
RetryNext ==
  \/ CollateralNext
  \/ \E operation \in Calls : CallStart(operation)
  \/ \E answer \in TokenEventAnswers : RecordAttempt(answer)
  \/ \E ok \in BOOLEAN : PageFetch(ok)

RetrySpec == Init /\ [][RetryNext]_vars

(***************************************************************************)
(* Ledger gateway: the routes that hold the indexer credential              *)
(***************************************************************************)
\* Texts are sequences of tokens; a key is a sequence of characters.
Networks == {"mainnet", "preprod"}

\* process.env.BLOCKFROST_MAINNET_API_KEY and process.env.BLOCKFROST_API_KEY
ServerEnv ==
  [BLOCKFROST_MAINNET_API_KEY |-> <<"m", "a", "i", "n">>,
   BLOCKFROST_API_KEY |-> <<"p", "r", "e">>]

\* the network a request is served on: ?dev forces preprod, then
\* NEXT_PUBLIC_CARDANO_NETWORK, then mainnet on a production deployment
NetworkOf(dev, explicitNetwork, production) ==
  IF dev THEN "preprod"
  ELSE IF explicitNetwork # "unset" THEN explicitNetwork
  ELSE IF production THEN "mainnet" ELSE "preprod"

getServerNetworkConfig(network) ==
  [network |-> network,
   isMainnet |-> network = "mainnet",
   blockfrostApiKey |-> IF network = "mainnet"
                        THEN ServerEnv.BLOCKFROST_MAINNET_API_KEY
                        ELSE ServerEnv.BLOCKFROST_API_KEY,
   blockfrostUrl |-> IF network = "mainnet"
                     THEN <<"https://cardano-mainnet.blockfrost.io/api/v0/">>
                     ELSE <<"https://cardano-preprod.blockfrost.io/api/v0/">>]

\* JSON.stringify of a boolean and of a small number
FlagText(b) == IF b THEN <<"true">> ELSE <<"false">>
NumberText(n) == <<<<"0", "1", "2", "3", "4", "5", "6", "7", "8", "9">>[n + 1]>>

\* NextResponse.json of an object given as a sequence of <<name, text>>
RECURSIVE JsonText(_)
JsonText(fields) ==
  IF fields = <<>> THEN <<>>
  ELSE <<Head(fields)[1], ":">> \o Head(fields)[2] \o JsonText(Tail(fields))

\* text carries the word when the word occurs in it, token for token
Carries(text, word) ==
  /\ word # <<>>
  /\ \E i \in 1..Len(text) :
       /\ i + Len(word) - 1 <= Len(text)
       /\ SubSeq(text, i, i + Len(word) - 1) = word

\* requests the proxied provider makes: the endpoint and the method
Endpoints ==
  {<<>>, <<"/addresses/", "addr", "/utxos">>, <<"/tx/submit">>,
   <<"/utils/txs/evaluate">>, <<"/epochs/latest/parameters">>}
Methods == {"GET", "POST"}
ContentTypes == {"undefined", "application/cbor", "application/json"}

\* the indexer's answers: a JSON document, a plain text, a refusal in
\* JSON or in text, or no answer at all (fetch throws)
Answers ==
  {[ok |-> TRUE, json |-> TRUE, data |-> <<"tx_hash", ":", "h1">>],
   [ok |-> TRUE, json |-> FALSE, data |-> <<"h1">>],
   [ok |-> FALSE, json |-> TRUE,
    data |-> <<"status_code", ":", "403", "message", ":",
               "Invalid project token.">>],
   [ok |-> FALSE, json |-> FALSE, data |-> <<"Bad Gateway">>],
   [ok |-> FALSE, json |-> FALSE, data |-> <<"fetch failed">>]}
Thrown500(answer) == answer.data = <<"fetch failed">>

\* POST /api/cardano/blockfrost-proxy
BlockfrostProxyPOST(endpoint, method, contentType, network, answer) ==
  IF endpoint = <<>>
  THEN Reply("proxy", network, 400,
             JsonText(<< <<"error", <<"Missing endpoint parameter">>>> >>),
             NoUpstream)
  ELSE LET config == getServerNetworkConfig(network)
           isCborEndpoint == endpoint \in {<<"/tx/submit">>,
                                           <<"/utils/txs/evaluate">>}
           defaultContentType == IF isCborEndpoint THEN "application/cbor"
                                 ELSE "application/json"
           sent == [url |-> config.blockfrostUrl \o endpoint,
                    project_id |-> config.blockfrostApiKey,
                    contentType |-> IF contentType # "undefined"
                                    THEN contentType
                                    ELSE defaultContentType]
       IN IF Thrown500(answer)
          THEN Reply("proxy", network, 500,
                     JsonText(<< <<"error", answer.data>> >>), sent)
          ELSE IF ~answer.ok
          THEN Reply("proxy", network, 403,
                     IF answer.json THEN answer.data
                     ELSE JsonText(<< <<"error", answer.data>> >>), sent)
          ELSE Reply("proxy", network, 200,
                     IF answer.json THEN answer.data
                     ELSE JsonText(<< <<"result", answer.data>> >>), sent)

\* GET /api/cardano/blockfrost-proxy?endpoint=...
BlockfrostProxyGET(endpoint, network, answer) ==
  IF endpoint = <<>>
  THEN Reply("proxyGet", network, 400,
             JsonText(<< <<"error", <<"Missing endpoint parameter">>>> >>),
             NoUpstream)
  ELSE LET config == getServerNetworkConfig(network)
           sent == [url |-> config.blockfrostUrl \o endpoint,
                    project_id |-> config.blockfrostApiKey,
                    contentType |-> "none"]
       IN IF Thrown500(answer) \/ ~answer.json
          THEN Reply("proxyGet", network, 500,
                     JsonText(<< <<"error", <<"Proxy error">>>> >>), sent)
          ELSE Reply("proxyGet", network, IF answer.ok THEN 200 ELSE 403,
                     answer.data, sent)

\* GET /api/cardano/config: the public part of the configuration
ConfigGET(network) ==
  LET config == getServerNetworkConfig(network)
  IN Reply("config", network, 200,
           JsonText(<< <<"network", <<config.network>>>>,
                       <<"isMainnet", FlagText(config.isMainnet)>>,
                       <<"blockfrostUrl", config.blockfrostUrl>> >>),
           NoUpstream)

\* a mint route that wrote the key itself into its error details
OracleFetchFailure_key(network, errorMessage) ==
  LET config == getServerNetworkConfig(network)
  IN Reply("mint", network, 500,
           JsonText(<< <<"error", <<"Failed to fetch oracle data: ">>
                                    \o errorMessage>>,
                       <<"network", <<config.network>>>>,
                       <<"blockfrostKey", config.blockfrostApiKey>> >>),
           NoUpstream)

\* POST /api/cardano/mint when the oracle data cannot be fetched: the
\* details say whether a key is configured and how long it is
OracleFetchFailure(network, errorMessage) ==
  LET config == getServerNetworkConfig(network)
  IN Reply("mint", network, 500,
           JsonText(<< <<"error", <<"Failed to fetch oracle data: ">>
                                    \o errorMessage>>,
                       <<"network", <<config.network>>>>,
                       <<"hasBlockfrostKey",
                         FlagText(config.blockfrostApiKey # <<>>)>>,
                       <<"blockfrostKeyLength",
                         NumberText(Len(config.blockfrostApiKey))>> >>),
           NoUpstream)

ErrorMessages == {<<"Oracle UTxO not found">>, <<"fetch failed">>}
NetworkSettings == {"unset", "mainnet", "preprod"}

\* one request served by one of the key-holding routes
Serve(dev, explicitNetwork, production) ==
  LET network == NetworkOf(dev, explicitNetwork, production)
  IN /\ \/ \E endpoint \in Endpoints, method \in Methods,
              contentType \in ContentTypes, answer \in Answers :
             exchange' = BlockfrostProxyPOST(endpoint, method, contentType,
                                             network, answer)
        \/ \E endpoint \in Endpoints, answer \in Answers :
             exchange' = BlockfrostProxyGET(endpoint, network, answer)
        \/ exchange' = ConfigGET(network)
        \/ \E errorMessage \in ErrorMessages :
             exchange' = OracleFetchFailure(network, errorMessage)
     /\ UNCHANGED <<mintVars, airdropVars, retryVars, callVars>>

GatewayNext ==
  \E dev \in BOOLEAN, explicitNetwork \in NetworkSettings,
     production \in BOOLEAN :
    Serve(dev, explicitNetwork, production)

GatewaySpec == Init /\ [][GatewayNext]_vars

TypeOK ==
  /\ oracle.ref \in 0..MaxRef
  /\ \A p \in Wallets : procs[p].pc \in {"idle", "built"}
  /\ run.pc \in {"idle", "loop", "exited"}
  /\ runs \in 0..MaxRuns

(***************************************************************************)
(* Properties of the issuance protocol                                      *)
(***************************************************************************)
MintRedeemers == {"MintPlutusNFT", "BulkMintPlutusNFT"}

\* C1: in every reachable state of the oracle record,
\* 0 <= index <= maxSupply.
C1_IndexWithinSupply ==
  oracle # NoOracle =>
    /\ 0 <= oracle.datum.count
    /\ oracle.datum.count <= oracle.datum.max_mints

\* the index has reached a positive maxSupply
C1_Witness ==
  /\ oracle # NoOracle
  /\ oracle.datum.max_mints > 0
  /\ oracle.datum.count = oracle.datum.max_mints

\* C2: the index never decreases; it changes only when a Mint or a
\* BulkMint(n) transaction settles, and then by exactly the requested
\* quantity: the transaction a request builds carries index + quantity, and
\* the settled index is the one the transaction carries.
C2_IndexChange ==
  [][/\ oracle'.datum.count >= oracle.datum.count
     /\ (oracle'.datum.count # oracle.datum.count =>
           \E tx \in mempool :
             /\ LedgerSettle(tx)
             /\ oracle'.datum.count = tx.datumOut.count
             /\ \/ /\ tx.redeemer = "MintPlutusNFT"
                   /\ oracle'.datum.count = oracle.datum.count + 1
                \/ /\ tx.redeemer = "BulkMintPlutusNFT"
                   /\ oracle'.datum.count = oracle.datum.count + tx.redeemerQty)
     /\ \A p \in Users :
          (procs[p].pc = "idle" /\ procs'[p].pc = "built") =>
            /\ last'.by = p
            /\ procs'[p].tx.redeemer \in MintRedeemers
            /\ procs'[p].tx.datumOut.count = oracle.datum.count + last'.quantity
    ]_vars

\* two issuance transactions have settled and moved the index to 2
C2_Witness ==
  /\ oracle.ref = 3
  /\ oracle.datum.count = 2
  /\ issued = {TokenName(0), TokenName(1)}

\* C3: a single or bulk issuance attempt made while mintingEnabled is false
\* fails with the Disabled error regardless of the remaining capacity, and no
\* issuance transaction results from it.
C3_DisabledFails ==
  [][\A p \in Users :
       (/\ oracle # NoOracle
        /\ ~oracle.datum.nft_mint_allowed
        /\ \/ PrepareSingle(p, FALSE)
           \/ /\ last'.quantity \in 1..MaxBulkQuantity
              /\ PrepareBulk(p, last'.quantity, FALSE))
       => (last'.err = "Disabled" /\ procs'[p].pc = "idle")
    ]_vars

\* C4: a BulkMint(n), n within the quantities the interface admits, requested
\* when index + n > maxSupply fails with CapacityExceeded and has no partial
\* effect: no transaction is built or submitted, the index is unchanged and
\* none of the n units is issued.
C4_BulkOverCapacity ==
  [][\A p \in Users, devOverride \in BOOLEAN :
       (/\ oracle # NoOracle
        /\ last'.quantity \in 1..MaxBulkQuantity
        /\ oracle.datum.count + last'.quantity > oracle.datum.max_mints
        /\ PrepareBulk(p, last'.quantity, devOverride))
       => /\ last'.err = "CapacityExceeded"
          /\ procs'[p].pc = "idle"
          /\ mempool' = mempool
          /\ oracle' = oracle
          /\ issued' = issued
    ]_vars

\* a bulk request of 2 was refused for capacity with one unit still available
C4_Witness ==
  /\ last.path = "mintProjectNFTBulk"
  /\ last.err = "CapacityExceeded"
  /\ last.quantity = 2
  /\ oracle # NoOracle
  /\ oracle.datum.count = oracle.datum.max_mints - 1
  /\ Cardinality(issued) = oracle.datum.count

\* k successive single issuances from oracle record o, each built by
\* executeSingleMint from the record the previous one left
RECURSIVE SingleMints(_, _, _)
SingleMints(o, names, k) ==
  IF k = 0 THEN [ok |-> TRUE, oracle |-> o, names |-> names]
  ELSE LET mintData == MintRoutePOST(1, o, FALSE)
           tx == executeSingleMintTx("u1", mintData)
       IN IF mintData.ok /\ LedgerAccepts(tx, o)
          THEN SingleMints(LedgerApply(tx, o), names \cup tx.mints, k - 1)
          ELSE [ok |-> FALSE, oracle |-> o, names |-> names]

C7_ContentionRetried ==
  ~(/\ last.path \in {"executeSingleMint", "mintProjectNFTBulk"}
    /\ last.pc = "error"
    /\ last.err = "ResourceContention")

(***************************************************************************)
(* Properties of the airdrop tool                                           *)
(***************************************************************************)
\* C8: a run resumed from a log submits no payment to an address that an
\* entry of that log marks success, even when the holder enumeration
\* returns the address again.
C8_ResumeSkipsSuccessful ==
  run.resumeFrom # 0 =>
    LET txs == logFiles[run.resumeFrom].transactions
    IN \A k \in 1..Len(txs) :
         txs[k].status = "success" =>
           \A j \in 1..Len(txs[k].addresses) :
             txs[k].addresses[j] \notin run.sent

\* a resumed run paid the rest of an enumeration that again returned the
\* addresses its log marks success
C8_Witness ==
  /\ run.resumeFrom # 0
  /\ run.sent # {}
  /\ \E k \in 1..Len(logFiles[run.resumeFrom].transactions) :
       LET e == logFiles[run.resumeFrom].transactions[k]
       IN /\ e.status = "success"
          /\ Len(e.addresses) >= 2
          /\ \A j \in 1..Len(e.addresses) :
               \E h \in 1..Len(run.holders) :
                 run.holders[h].address = e.addresses[j]

\* C9: across any number of interrupted and resumed runs of one log lineage
\* (each run resumed from the log the previous run wrote), every holder is
\* paid at most once.
C9_PaidAtMostOnce ==
  run.lineage => \A a \in DOMAIN paid : paid[a] <= 1

\* C10: when the wallet balance is less than the sum of the pending payouts
\* plus (number of batches x estimated fee per batch), the tool aborts with
\* an error before submitting any transaction.
C10_InsufficientAborts ==
  (/\ run.walletBalance # Undefined
   /\ run.walletBalance <
        SumAmounts(run.recipients)
          + Ceil(Len(run.recipients), BATCH_SIZE) * estimatedFeePerTx)
  => /\ run.pc = "exited"
     /\ run.exitCode = 1
     /\ run.sent = {}
     /\ run.logPath = 0

\* a run over two batches was aborted for a balance one lovelace short
C10_Witness ==
  /\ run.pc = "exited"
  /\ run.exitCode = 1
  /\ Len(run.recipients) > BATCH_SIZE
  /\ run.walletBalance =
       SumAmounts(run.recipients)
         + Ceil(Len(run.recipients), BATCH_SIZE) * estimatedFeePerTx - 1

\* C11: a single mint succeeds when index + 1 <= maxSupply, the last unit
\* (index = maxSupply - 1) included, and a single mint requested at
\* index = maxSupply fails with CapacityExceeded.
C11_SingleMintAtCapacity ==
  [][\A p \in Users, devOverride \in BOOLEAN :
       (oracle # NoOracle /\ PrepareSingle(p, devOverride)) =>
         IF oracle.datum.count + 1 <= oracle.datum.max_mints
         THEN oracle.datum.nft_mint_allowed =>
                /\ last'.pc = "built"
                /\ procs'[p].tx.datumOut.count = oracle.datum.count + 1
         ELSE last'.pc = "error" /\ last'.err = "CapacityExceeded"
    ]_vars

\* C12: after any sequence of successful issuances the indices of the issued
\* units are exactly 0 .. index-1, no index skipped and none used for two
\* units; the indices a request is given are index .. index+n-1.
C12_GapFree ==
  /\ {nm[2] : nm \in issued} = 0..(oracle.datum.count - 1)
  /\ Cardinality(issued) = oracle.datum.count
  /\ \A q \in 1..MaxSupplyBound :
       LET mintData == MintBulkRoutePOST(q, oracle, FALSE)
       IN mintData.ok =>
            mintData.tokenIds = [i \in 1..q |-> oracle.datum.count + (i - 1)]
  /\ LET mintData == MintRoutePOST(1, oracle, FALSE)
     IN mintData.ok => mintData.tokenIds = <<oracle.datum.count>>

\* two units are issued, indices 0 and 1, after two settled transitions
C12_Witness ==
  /\ oracle.datum.count = 2
  /\ issued = {TokenName(0), TokenName(1)}
  /\ consumed[1] = 1
  /\ consumed[2] = 1
  /\ oracle.datum.nft_mint_allowed

\* C13: every issuance transaction that advances the index by n carries a
\* payment of exactly unitPrice x n to the feeCollector held in the oracle
\* record it consumes.
C13_PaymentMatches ==
  [][\A tx \in mempool :
       (LedgerSettle(tx) /\ oracle'.datum.count # oracle.datum.count) =>
         LET n == oracle'.datum.count - oracle.datum.count
         IN /\ tx.fee = oracle.datum.lovelace_price * n
            /\ tx.payee = oracle.datum.fee_address
    ]_vars

\* a transaction assembled by the build-tx route was submitted after a
\* first unit and has settled as the second
C13_Witness ==
  /\ last.path = "buildTx"
  /\ last.pc = "done"
  /\ oracle.ref = 3
  /\ oracle.datum.count = 2
  /\ mempool = {}

\* the fields of a record other than the index
Frame(d) == [d EXCEPT !.count = 0]

\* C14: the successor record of a Mint or BulkMint differs from its
\* predecessor only in index: the record a request assembles, and the record
\* a settled issuance leaves, keep unitPrice, feeCollector, both flags, the
\* APR fields, the maturation time and maxSupply.
C14_MintFrame ==
  [][/\ \A tx \in mempool :
          (LedgerSettle(tx) /\ tx.redeemer \in MintRedeemers) =>
            /\ Frame(oracle'.datum) = Frame(oracle.datum)
            /\ oracle'.datum.count # oracle.datum.count
     /\ LET mintData == MintRoutePOST(1, oracle, FALSE)
        IN mintData.ok =>
             Frame(executeSingleMintTx("u1", mintData).datumOut)
               = Frame(oracle.datum)
     /\ \A q \in 1..MaxSupplyBound :
          LET mintData == MintBulkRoutePOST(q, oracle, FALSE)
          IN mintData.ok =>
               Frame(mintProjectNFTBulkTx("u1", mintData, q).datumOut)
                 = Frame(oracle.datum)
    ]_vars

\* a single mint of the hook has settled and the feeCollector has then
\* switched issuance off
C14_Witness ==
  /\ oracle.ref = 3
  /\ oracle.datum.count = 1
  /\ issued = {TokenName(0)}
  /\ ~oracle.datum.nft_mint_allowed
  /\ consumed[1] = 1
  /\ consumed[2] = 1
  /\ last.path = "setNFTMinting"
  /\ last.pc = "done"

ToggleRedeemers ==
  {"EnableNFTMinting", "DisableNFTMinting",
   "EnableNFTTrading", "DisableNFTTrading"}

\* C15: an EnableMint, DisableMint, EnableTrade or DisableTrade transition is
\* valid only when the transaction is signed by the key matching the
\* record's feeCollector: a settled toggle carries that signature, the
\* toggle a wallet assembles names the feeCollector as required signer, and
\* the attempt of any other wallet is refused.
C15_ToggleNeedsFeeCollector ==
  [][/\ \A tx \in mempool :
          (tx.redeemer \in ToggleRedeemers /\ LedgerSettle(tx)) =>
            tx.signedBy = oracle.datum.fee_address
     /\ (/\ oracle # NoOracle
         /\ last'.path \in {"setNFTMinting", "setNFTTrading"}
         /\ \E b \in BOOLEAN :
              ToggleMinting(last'.by, b) \/ ToggleTrading(last'.by, b))
        => /\ \A b \in BOOLEAN :
                /\ setNFTMinting(last'.by, oracle, b).tx.requiredSigner
                     = oracle.datum.fee_address
                /\ setNFTTrading(last'.by, oracle, b).tx.requiredSigner
                     = oracle.datum.fee_address
           /\ last'.by # oracle.datum.fee_address
                => (last'.pc = "error" /\ mempool' = mempool)
    ]_vars

\* the feeCollector has switched transfer off and another wallet's attempt
\* to switch it back on was refused
C15_Witness ==
  /\ oracle # NoOracle
  /\ ~oracle.datum.nft_trade_allowed
  /\ last.by = "u1"
  /\ last.path = "setNFTTrading"
  /\ last.pc = "error"
  /\ mempool = {}

C17_ToggleKeepsIndex ==
  [][/\ \A tx \in mempool :
          (tx.redeemer \in ToggleRedeemers /\ LedgerSettle(tx)) =>
            /\ oracle'.datum.count = oracle.datum.count
            /\ oracle'.datum.max_mints = oracle.datum.max_mints
            /\ issued' = issued
     /\ oracle # NoOracle =>
          \A b \in BOOLEAN :
            LET m == setNFTMinting(Admin, oracle, b).tx.datumOut
                t == setNFTTrading(Admin, oracle, b).tx.datumOut
            IN /\ m.count = oracle.datum.count
               /\ m.max_mints = oracle.datum.max_mints
               /\ t.count = oracle.datum.count
               /\ t.max_mints = oracle.datum.max_mints
    ]_vars

\* transfer was switched off after one unit had been issued
C17_Witness ==
  /\ oracle.ref = 3
  /\ oracle.datum.count = 1
  /\ oracle.datum.max_mints = MaxSupplyBound
  /\ ~oracle.datum.nft_trade_allowed
  /\ Cardinality(issued) = 1

\* C19: from bootstrap onward exactly one unspent output holds the oracle
\* token: a settled transaction that changes the oracle record is the
\* bootstrap or spends the current oracle output, and leaves exactly one
\* successor output with the token; every builder assembles such a
\* transaction.
C19_OneOracleToken ==
  [][/\ tokenHolders' = (IF oracle' = NoOracle THEN 0 ELSE 1)
     /\ (oracle # NoOracle => oracle' # NoOracle)
     /\ \A tx \in mempool :
          (oracle' # oracle /\ LedgerSettle(tx)) =>
            /\ tx.path = "setupOracle" \/ (tx.spends /\ tx.input = oracle.ref)
            /\ tx.oracleOut = 1
            /\ consumed'[oracle.ref] = (IF oracle = NoOracle THEN 0 ELSE 1)
            /\ consumed'[oracle'.ref] = 0
     /\ LET s == setupOracle(Admin, MaxPrice, <<8, 100>>, 1, MaxSupplyBound).tx
        IN s.oracleMint = 1 /\ s.oracleOut = 1 /\ ~s.spends
     /\ oracle' # oracle =>
          /\ \A b \in BOOLEAN :
               LET m == setNFTMinting(Admin, oracle', b).tx
                   t == setNFTTrading(Admin, oracle', b).tx
               IN /\ m.spends /\ m.input = oracle'.ref
                  /\ m.oracleOut = 1 /\ m.oracleMint = 0
                  /\ t.spends /\ t.input = oracle'.ref
                  /\ t.oracleOut = 1 /\ t.oracleMint = 0
          /\ LET r == mintPlutusNFT("u1", oracle', TRUE, Undefined, TRUE)
             IN r.ok => /\ r.tx.spends /\ r.tx.input = oracle'.ref
                        /\ r.tx.oracleOut = 1 /\ r.tx.oracleMint = 0
          /\ \A q \in BulkQuantities :
               LET r == mintBulkPlutusNFT("u1", oracle', q)
               IN r.ok => /\ r.tx.spends /\ r.tx.input = oracle'.ref
                          /\ r.tx.oracleOut = 1 /\ r.tx.oracleMint = 0
    ]_vars

\* the token sits in the third successor of the first oracle output, every
\* earlier output spent exactly once
C19_Witness ==
  /\ oracle # NoOracle
  /\ oracle.ref = 3
  /\ tokenHolders = 1
  /\ consumed[1] = 1
  /\ consumed[2] = 1
  /\ consumed[3] = 0
  /\ oracle.datum.count = 1
  /\ oracle.datum.nft_mint_allowed
  /\ ~oracle.datum.nft_trade_allowed

(***************************************************************************)
(* Properties of the mint hook's status display                             *)
(***************************************************************************)
Statuses == {"idle", "preparing", "signing", "submitting", "confirming", "success", "error", "warning"}

\* C20: when the background confirmation of a submitted transaction gives
\* up, a status of 'confirming' or 'success' becomes 'warning', no status
\* becomes 'error', and the outcome of the mint, its submitted transaction
\* and the transaction the session holds stay as they were.
C20_GiveUpIsWarning ==
  [][/\ \A expectedIndex \in polls :
          PollGiveUp(expectedIndex) =>
            /\ mintStatus \in {"confirming", "success"} => mintStatus' = "warning"
            /\ mintStatus' = "error" => mintStatus = "error"
            /\ last' = last
            /\ procs' = procs
            /\ mempool' = mempool
     /\ \A s \in Statuses :
          /\ onOracleUpdated(s, FALSE) \in {s, "warning"}
          /\ s \in {"confirming", "success"} => onOracleUpdated(s, FALSE) = "warning"
          /\ onOracleUpdated(s, TRUE) = s
    ]_vars

\* the session's mint was submitted, has not settled, and its confirmation
\* gave up
C20_Witness ==
  /\ mintStatus = "warning"
  /\ polls = {}
  /\ last.by = Session
  /\ last.path = "executeSingleMint"
  /\ last.pc = "done"
  /\ oracle.datum.count = 0
  /\ mempool # {}

(***************************************************************************)
(* Properties of request validation and of the airdrop batches              *)
(***************************************************************************)
\* C21: a bulk mint whose quantity exceeds the maximum batch size (15) ends
\* in the quantity error with no transaction built or submitted; the route
\* refuses such a quantity even when the supply has room for it.
C21_OverMaxBatchRejected ==
  [][/\ (last'.path = "mintProjectNFTBulk" /\ last'.quantity > MaxBulkQuantity) =>
          \A devOverride \in BOOLEAN :
            PrepareBulk(last'.by, last'.quantity, devOverride) =>
              /\ last'.pc = "error"
              /\ last'.err = "InvalidQuantity"
              /\ procs'[last'.by] = IdleProc
              /\ mempool' = mempool
     /\ oracle # NoOracle =>
          \A devOverride \in BOOLEAN :
            LET roomy == [oracle EXCEPT !.datum.max_mints =
                            oracle.datum.count + MaxBulkQuantity + 1]
                res == MintBulkRoutePOST(MaxBulkQuantity + 1, roomy, devOverride)
            IN ~res.ok /\ res.error = "InvalidQuantity"
    ]_vars

\* a bulk mint of 16 units was refused while issuance was open
C21_Witness ==
  /\ last.path = "mintProjectNFTBulk"
  /\ last.quantity = MaxBulkQuantity + 1
  /\ last.pc = "error"
  /\ last.err = "InvalidQuantity"
  /\ oracle # NoOracle
  /\ oracle.datum.nft_mint_allowed
  /\ mempool = {}

ExampleHolders == 120
ExampleRecipients == Recipients(getNFTHolders(ExampleHolders, {}), 10)

\* C22: the pending holders are split into consecutive batches of at most
\* 50 recipients, every pending holder in exactly one batch, and the log
\* entries of an execution are these batches in order; 120 pending holders
\* give batches of 50, 50 and 20.
C22_BatchesPartition ==
  /\ (run.pc \in {"loop", "exited"} /\ run.recipients # <<>>) =>
       LET bs == Batches(run.recipients)
           txs == run.log.transactions
       IN /\ \A k \in 1..Len(bs) : Len(bs[k]) \in 1..BATCH_SIZE
          /\ Concat(bs) = run.recipients
          /\ Len(txs) <= Len(bs)
          /\ Len(txs) * BATCH_SIZE = run.i
          /\ \A k \in 1..Len(txs) :
               txs[k].addresses = [j \in 1..Len(bs[k]) |-> bs[k][j].address]
  /\ LET r == ExampleRecipients
         bs == Batches(r)
     IN /\ [k \in 1..Len(bs) |-> Len(bs[k])] = <<50, 50, 20>>
        /\ Concat(bs) = r

\* an execution over 51 pending holders has logged a batch of 50 and a
\* batch of one and has ended
C22_Witness ==
  /\ run.pc = "exited"
  /\ run.exitCode = 0
  /\ Len(run.recipients) = MaxHolders
  /\ Len(run.log.transactions) = 2
  /\ Len(run.log.transactions[1].addresses) = BATCH_SIZE
  /\ Len(run.log.transactions[2].addresses) = MaxHolders - BATCH_SIZE

\* C23: each recipient's payout equals the rate per unit multiplied by the
\* units the holder holds (the rate is in tenths of ADA, the payout in
\* lovelace).
C23_PayoutIsRateTimesUnits ==
  \A k \in 1..Len(run.recipients) :
    run.recipients[k].amountLovelace * 10 =
      run.recipients[k].quantity * run.adaPerNft * LovelacePerAda

\* the enumeration of 120 holding addresses: 180 units on two result pages
ExampleEnumeration == getNFTHolders(ExampleHolders, {})

\* C24: the holder enumeration of an execution has one entry per address
\* that holds a unit on the ledger, with the number of units the address
\* holds, over all result pages.
C24_EnumerationComplete ==
  /\ run.pc # "idle" =>
       /\ Len(run.holders) = run.onLedger
       /\ \A a \in 1..run.onLedger :
            \E i \in 1..Len(run.holders) :
              /\ run.holders[i].address = a
              /\ run.holders[i].quantity = Held(a)
  /\ Len(ExampleEnumeration) = ExampleHolders
  /\ \A a \in 1..ExampleHolders :
       /\ ExampleEnumeration[a].address = a
       /\ ExampleEnumeration[a].quantity = Held(a)

\* C25: when the scripts of the transaction a mint assembled fail in
\* evaluation, the mint ends in an error that names each failed script, no
\* transaction is held for signing and none is submitted: the transaction
\* is not tried again.
C25_EvaluationFailureIsFatal ==
  [][/\ (last'.path = "executeSingleMint" /\ last'.pc = "error") =>
          \A devOverride \in BOOLEAN :
            LET mintData == MintRoutePOST(1, oracle, devOverride)
                tx == executeSingleMintTx(last'.by, mintData)
            IN (PrepareSingle(last'.by, devOverride) /\ mintData.ok) =>
                 /\ ScriptFailures(tx, oracle) # {}
                 /\ last'.err = ScriptFailureMessage(ScriptFailures(tx, oracle))
                 /\ procs'[last'.by] = IdleProc
                 /\ mempool' = mempool
     /\ (last'.path = "mintProjectNFTBulk" /\ last'.pc = "error") =>
          \A devOverride \in BOOLEAN :
            LET mintData == MintBulkRoutePOST(last'.quantity, oracle, devOverride)
                tx == mintProjectNFTBulkTx(last'.by, mintData, last'.quantity)
            IN (/\ last'.quantity \in 1..MaxBulkQuantity
                /\ PrepareBulk(last'.by, last'.quantity, devOverride)
                /\ mintData.ok) =>
                 /\ ScriptFailures(tx, oracle) # {}
                 /\ last'.err = ScriptFailureMessage(ScriptFailures(tx, oracle))
                 /\ procs'[last'.by] = IdleProc
                 /\ mempool' = mempool
    ]_vars

\* a single mint assembled while issuance was switched off failed in the
\* evaluation of the oracle script
C25_Witness ==
  /\ last.path = "executeSingleMint"
  /\ last.pc = "error"
  /\ last.err = "Script evaluation failed: spend:0"
  /\ oracle # NoOracle
  /\ ~oracle.datum.nft_mint_allowed
  /\ procs[last.by] = IdleProc

\* the wallet balance an execution read does not cover the payouts and the
\* estimated fees
Insufficient ==
  /\ run.walletBalance # Undefined
  /\ run.walletBalance < requiredBalance(run.recipients)

\* C26: an execution that processed every batch of its recipients exits
\* with code 0; an execution that met a fatal condition before its first
\* batch (no key, no mnemonic, no resume file, insufficient balance) exits
\* with a non-zero code, having sent nothing.
C26_ExitCodes ==
  run.pc = "exited" =>
    /\ (run.recipients # <<>> /\ run.i >= Len(run.recipients)) =>
         run.exitCode = 0
    /\ (run.environment # "ok" \/ Insufficient) =>
         /\ run.exitCode # 0
         /\ run.sent = {}
         /\ run.log = NoLog

\* an execution paid both of its batches and exited with code 0
C26_Witness ==
  /\ run.pc = "exited"
  /\ run.exitCode = 0
  /\ run.i >= Len(run.recipients)
  /\ Len(run.recipients) = MaxHolders
  /\ run.log.summary.successful = MaxHolders
  /\ run.log.summary.failed = 0

(***************************************************************************)
(* Properties of the ledger gateway                                         *)
(***************************************************************************)
\* C27: the indexer credential is used only on the server side of the
\* gateway: it goes out as the project_id header of the request to the
\* indexer, and no reply handed to a client carries the key of either
\* network, nor does the address the request was sent to.
C27_KeyStaysServerSide ==
  \A network \in Networks :
    LET key == getServerNetworkConfig(network).blockfrostApiKey
    IN /\ ~Carries(exchange.body, key)
       /\ ~Carries(exchange.upstream.url, key)
       /\ (exchange.upstream # NoUpstream /\ exchange.network = network) =>
            exchange.upstream.project_id = key

\* the proxy sent the mainnet key to the indexer with an evaluation request
\* and handed the indexer's answer to the client
C27_Witness ==
  /\ exchange.route = "proxy"
  /\ exchange.status = 200
  /\ exchange.upstream.url =
       <<"https://cardano-mainnet.blockfrost.io/api/v0/",
         "/utils/txs/evaluate">>
  /\ exchange.upstream.project_id = ServerEnv.BLOCKFROST_MAINNET_API_KEY
  /\ exchange.body # <<>>

\* the addresses of the entries a log records as failed
FailedAddresses(log) ==
  UNION {{log.transactions[k].addresses[j] :
            j \in 1..Len(log.transactions[k].addresses)} :
         k \in {k \in 1..Len(log.transactions) :
                  log.transactions[k].status = "failed"}}

AddressesOf(list) == {list[k].address : k \in 1..Len(list)}

\* C28: in an execution resumed from a log, every address of an entry the
\* log records as failed that is still a holder is among the execution's
\* recipients, and has been sent to once the execution went through all its
\* batches.
C28_FailedAreRetried ==
  (run.resumeFrom # 0 /\ run.environment = "ok") =>
    \A a \in FailedAddresses(logFiles[run.resumeFrom]) :
      a \in AddressesOf(run.holders) =>
        /\ a \in AddressesOf(run.recipients)
        /\ (run.pc = "exited" /\ run.exitCode = 0) => a \in run.sent

\* an execution resumed from a log with a failed batch went through its
\* batches and sent to the addresses of that batch
C28_Witness ==
  /\ run.resumeFrom # 0
  /\ run.pc = "exited"
  /\ run.exitCode = 0
  /\ FailedAddresses(logFiles[run.resumeFrom]) # {}
  /\ FailedAddresses(logFiles[run.resumeFrom]) \subseteq run.sent
  /\ FailedAddresses(logFiles[run.resumeFrom]) \subseteq 1..run.onLedger

\* C29: of the transactions mintManyPlutusNFT returns, the one for request
\* k+1 is built from the oracle state the one for request k produces: when
\* transaction k spends the oracle record, transaction k+1 spends the record
\* that transaction k creates and counts on from its datum.
C29_EachBuiltOnPrevious ==
  (last.path = "mintManyPlutusNFT" /\ last.pc = "built") =>
    \A k \in 1..(Len(last.txs) - 1) :
      last.txs[k].spends =>
        /\ last.txs[k + 1].input = last.txs[k].input + 1
        /\ last.txs[k + 1].spends =>
             last.txs[k + 1].datumOut.count = last.txs[k].datumOut.count + 1

\* the entries whose writeFile returned in the current execution are the
\* entries of its in-memory log
Written == run.log.transactions

\* C30: the log with the entry of batch k is on storage before batch k+1 is
\* sent, and an execution that ended at any later point, by a crash
\* included, leaves a log file that records every batch whose write returned.
C30_WrittenBatchesSurvive ==
  (run.logPath # 0 /\ Written # <<>>) =>
    /\ run.logPath <= Len(logFiles)
    /\ ~logFiles[run.logPath].truncated
    /\ Len(logFiles[run.logPath].transactions) >= Len(Written)
    /\ \A k \in 1..Len(Written) :
         logFiles[run.logPath].transactions[k] = Written[k]

\* C31: at most one call of sendBatch is outstanding, and it is the call
\* for the batch after the last one logged: the send of batch k+1 starts
\* only when the send of batch k has returned.
C31_OneBatchInFlight ==
  /\ Cardinality(run.sending) <= 1
  /\ run.sending \subseteq {(run.i \div BATCH_SIZE) + 1}
  /\ run.sending # {} => Len(run.log.transactions) = run.i \div BATCH_SIZE

\* the send of the second batch is outstanding and the first batch is logged
C31_Witness ==
  /\ run.sending = {2}
  /\ Len(run.log.transactions) = 1
  /\ Len(logFiles[run.logPath].transactions) = 1

(***************************************************************************)
(* Properties of the bounded waits                                          *)
(***************************************************************************)
NotVisibleErrors ==
  {"collateral UTxO not available yet", "Failed to create collateral"}

\* C32: the wait for a new collateral UTxO queries the wallet at most 10
\* times, 3000 ms apart; when the UTxO is still not visible after the tenth
\* query the wait ends with an error that aborts the builder, or the batch,
\* that needed the collateral.
C32_CollateralWaitBounded ==
  retry.operation \in WaitingOperations =>
    /\ retry.queries <= 10
    /\ retry.slept \in {3000 * retry.queries, 3000 * (retry.queries - 1)}
    /\ retry.queries = 10 => retry.pc # "waiting"
    /\ retry.pc = "gaveUp" =>
         /\ retry.error # "none"
         /\ retry.result \in {"throws", "batchFailed"}
         /\ retry.error \in NotVisibleErrors => retry.queries = 10
    /\ retry.result = "proceeds" <=> retry.pc = "ready"

\* a mint of the contract class gave up after ten queries and thirty seconds
C32_Witness ==
  /\ retry.operation = "mintPlutusNFT"
  /\ retry.pc = "gaveUp"
  /\ retry.queries = 10
  /\ retry.slept = 30000
  /\ retry.result = "throws"

\* C33: a call that failed is tried again after a delay, and its error
\* reaches the caller only when the attempts are used up: a call that ended
\* in an error was made more than once, with a delay in between.
C33_FailedCallRetried ==
  (retry.operation \in Calls /\ retry.pc = "gaveUp") =>
    /\ retry.queries > 1
    /\ retry.slept > 0

\* C34: a batch is logged as failed only when the ledger did not take its
\* transaction: the step that appends a failed entry to the log pays
\* nobody.
C34_FailedMeansNotAccepted ==
  [][(/\ Len(run'.log.transactions) = Len(run.log.transactions) + 1
      /\ run'.log.transactions[Len(run'.log.transactions)].status = "failed")
     => paid' = paid]_vars

(***************************************************************************)
(* Properties of the mintProjectNFT loop                                    *)
(***************************************************************************)
\* C35: the single mints of one mintProjectNFT call use distinct consecutive
\* token indices, and none of them spends the oracle resource an earlier one
\* of the same call spends: each is assembled from a snapshot that already
\* reflects the previous mint
C35_LoopUsesFreshSnapshots ==
  call.pc \in {"running", "returned"} =>
    \A j \in 1..(Len(call.built) - 1) :
      /\ call.built[j + 1].tokenId = call.built[j].tokenId + 1
      /\ call.built[j + 1].input # call.built[j].input

\* C36: once the session's mint transaction has been submitted, a failure
\* of the bookkeeping that follows (recording the token event) does not end
\* the mint in the error status and does not lose the transaction: the
\* operation ends with the reference of the submitted transaction
C36_BookkeepingFailureKeepsTx ==
  [][(/\ procs[Session].pc = "built"
      /\ procs'[Session].pc = "idle"
      /\ procs[Session].tx \in mempool' \ mempool)
     => /\ last'.pc = "done"
        /\ mintStatus' # "error"
        /\ call'.pc # "threw"]_vars

\* the confirmations a call started itself: one per assembled single mint
OwnPolls(c) == {c.built[j].tokenId + 1 : j \in 1..Len(c.built)}

\* C37: the confirmation-timeout callback of one mint changes the status of
\* that mint only: it never overwrites an error status, and it never changes
\* the status of a later mint operation started in the meantime
C37_TimeoutTouchesOwnMintOnly ==
  [][\A expectedIndex \in polls \ polls' :
       /\ mintStatus = "error" => mintStatus' = "error"
       /\ (/\ call.pc # "none"
           /\ expectedIndex \in call.earlier
           /\ expectedIndex \notin OwnPolls(call))
          => mintStatus' = mintStatus]_vars

(***************************************************************************)
(* Properties of the bulk builders                                          *)
(***************************************************************************)
\* the four quantities of a bulk-mint transaction assembled on the oracle
\* record o are all n
BulkAgrees(tx, o, n) ==
  /\ tx.redeemerQty = n
  /\ tx.datumOut.count - o.datum.count = n
  /\ Cardinality(tx.mints) = n
  /\ tx.mintRedeemerQty = n

C39_AdvertisedIsAccepted ==
  offer.pc = "answered" =>
    offer.error \notin {"InvalidQuantity", "CapacityExceeded"}

(***************************************************************************)
(* Properties of the airdrop log's summary                                  *)
(***************************************************************************)
RECURSIVE SumOf(_)
\* the sum of a list of amounts
SumOf(amounts) ==
  IF amounts = <<>> THEN 0 ELSE Head(amounts) + SumOf(Tail(amounts))

RECURSIVE LoggedAddresses(_)
\* the number of addresses in all the entries of a log
LoggedAddresses(transactions) ==
  IF transactions = <<>> THEN 0
  ELSE Len(Head(transactions).addresses) + LoggedAddresses(Tail(transactions))

RECURSIVE LoggedSent(_)
\* the sum of the amounts in the entries whose status is success
LoggedSent(transactions) ==
  IF transactions = <<>> THEN 0
  ELSE (IF Head(transactions).status = "success"
        THEN SumOf(Head(transactions).amounts) ELSE 0)
       + LoggedSent(Tail(transactions))

\* a log whose summary agrees with its entries
SelfConsistent(log) ==
  /\ log.summary.successful + log.summary.failed
       = LoggedAddresses(log.transactions)
  /\ log.summary.totalSent = LoggedSent(log.transactions)

\* C40: after every batch the written log is self-consistent:
\* summary.successful + summary.failed is the number of addresses in all
\* logged entries, and summary.totalSent is the sum of the amounts in the
\* entries whose status is success
C40_SummaryMatchesEntries ==
  \A f \in 1..Len(logFiles) :
    ~logFiles[f].truncated => SelfConsistent(logFiles[f])

\* a written log with a failed batch followed by a successful one
C40_Witness ==
  \E f \in 1..Len(logFiles) :
    /\ ~logFiles[f].truncated
    /\ Len(logFiles[f].transactions) = 2
    /\ logFiles[f].transactions[1].status = "failed"
    /\ logFiles[f].transactions[2].status = "success"
    /\ logFiles[f].summary.failed = BATCH_SIZE
    /\ logFiles[f].summary.successful = 1
    /\ logFiles[f].summary.totalSent > 0

====
